---- MODULE Spec2Model ----
(***************************************************************************)
(* A model of the virtio wayland driver (src/drivers/virtio/virtio_wl.c):  *)
(* the VFD registry, the VFD objects with their inbound queues, the        *)
(* dispatcher of the receive queue, the send queue with its completion     *)
(* worker, and the guest operations new, read, write and close.            *)
(*                                                                         *)
(* Granularity: every action runs from one point where the code can block  *)
(* (a mutex_lock, a wait_event, a wait_for_completion) to the next one.    *)
(* The two virtqueue locks guard sections that never block, so each such   *)
(* section is one step.  A mutex that is free when its turn comes is taken  *)
(* in the step that reaches it: vfd->lock is only ever waited for under    *)
(* vi->vfds_lock, so nobody can take it in between.  The host filling a    *)
(* posted receive buffer and the work handler taking it from the used ring *)
(* are one step; handling the message is the next, and giving the buffer   *)
(* back to the queue the one after.  The host answering a request,         *)
(* vq_out_work_handler                                                     *)
(* completing it and the waiter running on to its next blocking point are  *)
(* one step: until the waiter runs, the others see only a ring slot that   *)
(* is free a little earlier.                                               *)
(*                                                                         *)
(* Memory: a VFD lives in one of MaxVfd slots (its address).  kfree keeps  *)
(* the slot's bytes and marks it "freed"; kzalloc may hand out any slot    *)
(* that is not live and zeroes it.  A stale pointer therefore reads the    *)
(* stale bytes, or the object that reuses the address, or the thread dies  *)
(* (uaf_oops): these are the outcomes of a use after free.  Small          *)
(* GFP_KERNEL allocations are taken to succeed.                            *)
(*                                                                         *)
(* Symmetry: slots never used are alike, and so are idle threads; of       *)
(* either the first stands for all.                                        *)
(***************************************************************************)
EXTENDS Integers, Sequences, FiniteSets, TLC

VARIABLES
    vfds,       \* vi->vfds: the idr, a function from registered id to slot
    vfds_lock,  \* vi->vfds_lock: "free" or its owner
    vfd,        \* the VFD slots: struct virtwl_vfd at each address
    files,      \* the caller's descriptor table: fd -> slot (private_data)
    th,         \* the guest threads: operation, position, locals
    out_vq,     \* vqs[VIRTWL_VQ_OUT]: the threads whose request is on it
    out_lock,   \* vq_locks[VIRTWL_VQ_OUT]: "free" or its owner
    in_avail,   \* vqs[VIRTWL_VQ_IN]: the posted receive buffers, in order
    disp,       \* vq_in_work_handler: position, buffer and message in hand
    closes,     \* history: close requests queued for the object in a slot
    allocd,     \* history: id -> [vfd, by], per idr_alloc and idr_remove
    budget,     \* history: system calls begun and messages the host sent
    env,        \* the name of the run's environment: what the host and the
                \* callers may do
    hist        \* history, where the environment has it kept: per VFD, the
                \* bytes queued and the bytes read

vars == <<vfds, vfds_lock, vfd, files, th, out_vq, out_lock, in_avail, disp,
          closes, allocd, budget, env, hist>>

\* ------------------------------------------------------------- bounds
MaxVfd == 2
NumBufs == 2
OutRingSize == 1
MaxData == 1
MaxInputs == 3

\* ---------------------------------------------------------- constants
\* An id is the 32 bit pattern of the u32 in the message, held as the int
\* idr_alloc and idr_find take it for: bit 31 set is a negative number.
VFD_ILLEGAL_SIGN_BIT == -2147483647 - 1
VFD_HOST_VFD_ID_BIT == 1073741824
VIRTWL_MAX_ALLOC == 2048
VIRTWL_SEND_MAX_ALLOCS == 28
\* DMA_BUF_SYNC_RW | DMA_BUF_SYNC_END
DMA_BUF_SYNC_VALID_FLAGS_MASK == 7

NULL == 0
Slots == 1..MaxVfd
Bufs == 1..NumBufs
Fds == 1..MaxVfd
UserThreads == {"u1", "u2"}
\* vi->fence_release_work, the work item that closes the VFDs of released
\* fences, runs on a kernel worker thread
FENCE_RELEASE_WORK == "fence_release_work"
Threads == UserThreads \cup {FENCE_RELEASE_WORK}
ThreadNo == [u1 |-> 1, u2 |-> 2]
IN_WORK == "in_work"

\* ids the host puts in its messages
HostId1 == VFD_HOST_VFD_ID_BIT + 1
NewIds == {0, 1, HostId1, VFD_ILLEGAL_SIGN_BIT + HostId1}
TargetIds == {1, HostId1}
AttachLists == {<<>>, <<HostId1>>}
ReadLens == 1..MaxData
\* response types the host writes into a request's header
RespTypes == {"OK", "INVALID_ID"}
\* every response type of the protocol, and one it does not have
AllRespTypes ==
    {"OK", "VFD_NEW", "VFD_NEW_DMABUF", "ERR", "OUT_OF_MEMORY", "INVALID_ID",
     "INVALID_TYPE", "INVALID_FLAGS", "INVALID_CMD", "UNKNOWN"}

\* id & bit, for a bit of one 1
HasBit(id, bit) ==
    IF bit = VFD_ILLEGAL_SIGN_BIT THEN id < 0 ELSE (id \div bit) % 2 = 1

\* ------------------------------------------------------------ the idr
idr_find(idr, id) == IF id \in DOMAIN idr THEN idr[id] ELSE NULL

\* an idr_alloc that hands out the first id of the range though it is taken
idr_alloc_taken(idr, start, end) ==
    IF start < 0 THEN -1 ELSE start

\* the lowest free id of [start, end); a negative start is refused (-1 for
\* -EINVAL), as is a range with no free id (-1 for -ENOSPC)
idr_alloc(idr, start, end) ==
    IF start < 0 THEN -1
    ELSE IF \E i \in start..(end - 1) : i \notin DOMAIN idr
    THEN CHOOSE i \in start..(end - 1) :
             /\ i \notin DOMAIN idr
             /\ \A j \in start..(i - 1) : j \in DOMAIN idr
    ELSE -1

idr_insert(idr, id, p) ==
    [x \in DOMAIN idr \cup {id} |-> IF x = id THEN p ELSE idr[x]]

idr_remove(idr, id) == [x \in DOMAIN idr \ {id} |-> idr[x]]

\* ------------------------------------------------------ response codes
\* virtwl_resp_err with INVALID_FLAGS answered like INVALID_TYPE
virtwl_resp_err_flags(type) ==
    CASE type \in {"OK", "VFD_NEW", "VFD_NEW_DMABUF"} -> "0"
      [] type = "ERR" -> "ENODEV"
      [] type = "OUT_OF_MEMORY" -> "ENOMEM"
      [] type = "INVALID_ID" -> "ENOENT"
      [] type \in {"INVALID_TYPE", "INVALID_FLAGS"} -> "EINVAL"
      [] type = "INVALID_CMD" -> "ENOTTY"
      [] OTHER -> "EPROTO"

virtwl_resp_err(type) ==
    CASE type \in {"OK", "VFD_NEW", "VFD_NEW_DMABUF"} -> "0"
      [] type = "ERR" -> "ENODEV"
      [] type = "OUT_OF_MEMORY" -> "ENOMEM"
      [] type = "INVALID_ID" -> "ENOENT"
      [] type = "INVALID_TYPE" -> "EINVAL"
      [] type = "INVALID_FLAGS" -> "EPERM"
      [] type = "INVALID_CMD" -> "ENOTTY"
      [] OTHER -> "EPROTO"

\* ------------------------------------------------------------ objects
\* kzalloc + virtwl_vfd_alloc: all fields zero, lock and queue initialised
\* The field fence is the flag VIRTIO_WL_VFD_FENCE of vfd->flags.  The
\* struct virtwl_fence objects made for a VFD (fence->vfd points at it) are
\* kept with it in fences, fence_ptr is vfd->fence (an index into fences, or
\* NULL), and fence_release_entry says whether the VFD's list head of that
\* name is on vi->fence_release_list.  pfn and size are those the host gave
\* the VFD; zero, as kzalloc leaves them, where no run maps it.
virtwl_vfd_alloc ==
    [mem |-> "live", id |-> 0, fence |-> FALSE, hungup |-> FALSE,
     in_queue |-> <<>>, lock |-> "free", fences |-> <<>>, fence_ptr |-> 0,
     fence_release_entry |-> FALSE, pfn |-> 0, size |-> 0]

UnusedSlot ==
    [mem |-> "unused", id |-> 0, fence |-> FALSE, hungup |-> FALSE,
     in_queue |-> <<>>, lock |-> "free", fences |-> <<>>, fence_ptr |-> 0,
     fence_release_entry |-> FALSE, pfn |-> 0, size |-> 0]

\* kfree: the bytes stay as they are
virtwl_vfd_free(v) == [v EXCEPT !.mem = "freed"]

\* ---------------------------------------------------------------- fences
\* virtwl_ioctl_recv makes a fence for a fence VFD: kzalloc, dma_fence_init,
\* sync_file_create, dma_fence_put; the one reference left is the sync
\* file's.  signals counts the calls of dma_fence_signal_locked for it.
virtwl_fence == [signals |-> 0, refs |-> 1]

\* on fence i of VFD v
dma_fence_signal_locked(v, i) == [v EXCEPT !.fences[i].signals = @ + 1]

dma_fence_get(v, i) == [v EXCEPT !.fences[i].refs = @ + 1]

\* virtwl_fence_release of a fence of VFD v: the VFD goes on
\* vi->fence_release_list and the release work is scheduled (the fence
\* itself is freed)
virtwl_fence_release(v) == [v EXCEPT !.fence_release_entry = TRUE]

\* dma_fence_free
dma_fence_free(v, i) == [v EXCEPT !.fences[i].refs = 0]

\* what a descriptor table entry holds: the slot of the VFD for a
\* [virtwl_vfd] file, and for the sync file of fence i of the VFD in slot s
sync_file(s, i) == MaxVfd * i + s
sync_file_vfd(file) == ((file - 1) % MaxVfd) + 1
sync_file_fence(file) == (file - 1) \div MaxVfd

\* dma_fence_put: what it can leave behind.  The last reference gone, the
\* fence is released.  A put of a fence that was freed writes to freed
\* memory: the count may read as anything, so the release runs again or
\* it does not.
dma_fence_put(v, i) ==
    IF v.fences[i].refs > 1 THEN {[v EXCEPT !.fences[i].refs = @ - 1]}
    ELSE IF v.fences[i].refs = 1
    THEN {dma_fence_free(virtwl_fence_release(v), i)}
    ELSE {v, virtwl_fence_release(v)}

IdleThread ==
    [op |-> "none", pc |-> "idle", fd |-> 0, vfd |-> 0, len |-> 0,
     hup |-> FALSE, resp |-> "", ret |-> "0", cnt |-> 0, todo |-> <<>>,
     force_to_wait |-> FALSE, flags |-> 0, held |-> <<>>,
     stored |-> <<>>, vfds |-> <<>>]

IdleDisp == [pc |-> "idle", buf |-> 0, msg |-> [type |-> "NONE"], vfd |-> 0]

Msgs ==
    [type : {"NEW"}, id : NewIds, fence : {FALSE}, data : {0}, vfds : {<<>>}]
    \cup [type : {"NEW"}, id : {HostId1}, fence : {TRUE}, data : {0},
          vfds : {<<>>}]
    \cup [type : {"RECV"}, id : TargetIds, fence : {FALSE}, data : 0..MaxData,
          vfds : AttachLists]
    \cup [type : {"HUP"}, id : TargetIds, fence : {FALSE}, data : {0},
          vfds : {<<>>}]
    \cup [type : {"OTHER"}, id : {0}, fence : {FALSE}, data : {0},
          vfds : {<<>>}]

\* vq_return_inbuf_locked on the receive queue: virtqueue_add_inbuf fails
\* only when the ring has no free descriptor, and then the caller of
\* vq_dispatch_hdr frees the buffer
vq_return_inbuf_locked(avail, buf) ==
    IF Len(avail) < NumBufs THEN Append(avail, buf) ELSE avail

RECURSIVE ReturnAll(_, _)
ReturnAll(avail, q) ==
    IF q = <<>> THEN avail
    ELSE ReturnAll(vq_return_inbuf_locked(avail, Head(q).buf), Tail(q))

\* The environment of a run: how many inputs it makes and what one costs,
\* the messages the host sends and the types it answers with, the values a
\* caller's O_NONBLOCK takes, the sizes of its read buffers, whether virtqueue_add_sgs can fail with an
\* error other than -ENOSPC, and whether hist is kept.
BaseEnv ==
    [inputs |-> MaxInputs, cost |-> 1, msgs |-> Msgs, resp |-> RespTypes,
     lens |-> ReadLens, nonblock |-> BOOLEAN, add_err |-> FALSE,
     record |-> FALSE, use_send_vfd_v2 |-> TRUE]

\* hist of a VFD: how many bytes and attached ids its queued messages
\* brought, the bytes its readers were given (each byte is its position in
\* the stream, from 1), and how many attached ids they went past
NoHist ==
    [s \in Slots |-> [sent |-> 0, got |-> <<>>, ids_sent |-> 0,
                      ids_got |-> 0]]

\* senders only, as many calls as they like: every answer the host can
\* give, and a virtqueue that can fail
SendEnv ==
    [BaseEnv EXCEPT !.cost = 0, !.msgs = {}, !.resp = AllRespTypes,
                    !.add_err = TRUE]

\* senders with attachments, on a device with VIRTIO_WL_F_SEND_FENCES
\* (vi->use_send_vfd_v2) and on one without
AttachEnv == [BaseEnv EXCEPT !.cost = 0, !.msgs = {}]
AttachV1Env == [AttachEnv EXCEPT !.use_send_vfd_v2 = FALSE]

\* callers of the NEW ioctl only, and a virtqueue that can fail
NewEnv == [BaseEnv EXCEPT !.add_err = TRUE]

\* callers that all have O_NONBLOCK set
NonblockEnv == [BaseEnv EXCEPT !.msgs = {}, !.nonblock = {TRUE}]

\* readers only, and hist kept: the host sends VFD 1 messages of up to
\* ReadData bytes, with or without an attached id (of no VFD the guest
\* knows), and hangs it up; read buffers go from one byte to a whole message
ReadData == MaxData + 1
ReadEnv ==
    [BaseEnv EXCEPT
       !.msgs = [type : {"RECV"}, id : {1}, fence : {FALSE},
                 data : 0..ReadData, vfds : AttachLists]
                \cup [type : {"HUP"}, id : {1}, fence : {FALSE}, data : {0},
                      vfds : {<<>>}],
       !.lens = 1..ReadData,
       !.record = TRUE]

\* the fence VFD HostId1 arrives attached to messages for VFD 1, which
\* carry no data, and the host hangs it up; the virtqueue can fail
FenceEnv ==
    [BaseEnv EXCEPT
       !.inputs = MaxInputs + 1,
       !.msgs = [type : {"RECV"}, id : {1}, fence : {FALSE}, data : {0},
                 vfds : {<<HostId1>>}]
                \cup [type : {"HUP"}, id : {HostId1}, fence : {FALSE},
                      data : {0}, vfds : {<<>>}],
       !.lens = {},
       !.add_err = TRUE]

FenceLiveEnv == [FenceEnv EXCEPT !.inputs = MaxInputs]

\* callers of mmap only, as many calls as they like
MapEnv == [BaseEnv EXCEPT !.cost = 0, !.msgs = {}]

\* the host alone: one message more than in the base runs
DispEnv == [BaseEnv EXCEPT !.inputs = MaxInputs + 1]

\* the environments by name, and the one of this run
Envs ==
    [base |-> BaseEnv, send |-> SendEnv, nonblock |-> NonblockEnv,
     read |-> ReadEnv, attach |-> AttachEnv, attach_v1 |-> AttachV1Env,
     new |-> NewEnv, fence |-> FenceEnv, fence_live |-> FenceLiveEnv,
     map |-> MapEnv, disp |-> DispEnv]
Env == Envs[env]

Init ==
    /\ env = "base"
    /\ hist = <<>>
    /\ vfds = <<>>
    /\ vfds_lock = "free"
    /\ vfd = [s \in Slots |-> UnusedSlot]
    /\ files = [f \in Fds |-> NULL]
    /\ th = [t \in Threads |-> IdleThread]
    /\ out_vq = {}
    /\ out_lock = "free"
    /\ in_avail = [i \in 1..NumBufs |-> i]
    /\ disp = IdleDisp
    /\ closes = [s \in Slots |-> 0]
    /\ allocd = <<>>
    /\ budget = 0

\* the environment acts: a system call begins or the host sends a message
Input ==
    /\ budget < Env.inputs
    /\ budget' = budget + Env.cost

\* --------------------------------------------------------- dispatcher
LiveSlots == {s \in Slots : vfd[s].mem = "live"}
NonLive == Slots \ LiveSlots
\* the addresses kzalloc may return: a freed one, or the first unused one
kzalloc == {s \in NonLive : vfd[s].mem = "unused" =>
              \A s2 \in NonLive : vfd[s2].mem = "unused" => s <= s2}

\* the test without its host bit clause
vq_handle_new_valid_nohost(id) ==
    /\ id # 0
    /\ ~HasBit(id, VFD_ILLEGAL_SIGN_BIT)

\* the test without its sign bit clause
vq_handle_new_valid_nosign(id) ==
    /\ id # 0
    /\ HasBit(id, VFD_HOST_VFD_ID_BIT)

\* vq_handle_new's test of the announced id
vq_handle_new_valid(id) ==
    /\ id # 0
    /\ HasBit(id, VFD_HOST_VFD_ID_BIT)
    /\ ~HasBit(id, VFD_ILLEGAL_SIGN_BIT)

\* a New announcement that will need a slot is in the dispatcher's hands
PendingNew ==
    IF disp.pc = "dispatch" /\ disp.msg.type = "NEW"
       /\ vq_handle_new_valid(disp.msg.id)
    THEN 1 ELSE 0

\* The host fills the first posted buffer with a message of its choice and
\* vq_in_work_handler takes it off the queue (virtqueue_get_buf).  The host
\* announces a VFD only while the model has a slot to hold it.
vq_in_work_handler ==
    /\ disp.pc = "idle"
    /\ in_avail # <<>>
    /\ Input
    /\ \E m \in Env.msgs :
         /\ (m.type = "NEW" /\ vq_handle_new_valid(m.id)) => NonLive # {}
         /\ disp' = [pc |-> "dispatch", buf |-> Head(in_avail), msg |-> m,
                     vfd |-> NULL]
    /\ in_avail' = Tail(in_avail)
    /\ UNCHANGED <<vfds, vfds_lock, vfd, files, th, out_vq, out_lock, closes, allocd,
                   env, hist>>

\* vq_dispatch_hdr, case VIRTIO_WL_CMD_VFD_NEW: vq_handle_new drops an id
\* it does not accept; else the VFD is made and, under vi->vfds_lock,
\* registered under the announced id, or freed if idr_alloc refuses
vq_handle_new ==
    /\ disp.pc = "dispatch"
    /\ disp.msg.type = "NEW"
    /\ IF ~vq_handle_new_valid(disp.msg.id)
       THEN UNCHANGED <<vfds, vfd, closes, allocd>>
       ELSE /\ vfds_lock = "free"
            /\ \E s \in kzalloc :
                 LET id == disp.msg.id
                     obj == [virtwl_vfd_alloc EXCEPT !.id = id,
                                                     !.fence = disp.msg.fence]
                     ret == idr_alloc(vfds, id, id + 1)
                 IN  /\ closes' = [closes EXCEPT ![s] = 0]
                     /\ IF ret <= 0
                        THEN /\ vfd' = [vfd EXCEPT ![s] = virtwl_vfd_free(obj)]
                             /\ UNCHANGED <<vfds, allocd>>
                        ELSE /\ vfd' = [vfd EXCEPT ![s] = obj]
                             /\ vfds' = idr_insert(vfds, ret, s)
                             /\ allocd' = idr_insert(allocd, ret,
                                    [vfd |-> s, by |-> "vq_handle_new"])
    /\ disp' = [disp EXCEPT !.pc = "return"]
    /\ UNCHANGED <<vfds_lock, files, th, out_vq, out_lock, in_avail, budget, env, hist>>

\* an unrecognised message type is logged
vq_dispatch_default ==
    /\ disp.pc = "dispatch"
    /\ disp.msg.type = "OTHER"
    /\ disp' = [disp EXCEPT !.pc = "return"]
    /\ UNCHANGED <<vfds, vfds_lock, vfd, files, th, out_vq, out_lock, in_avail, closes,
                   allocd, budget, env, hist>>

\* vq_handle_recv and vq_handle_hup begin alike: mutex_lock(&vi->vfds_lock)
\* and idr_find; an unknown id is dropped; a VFD that is found is locked
\* before vi->vfds_lock is let go.  Only the dispatcher keeps a vfd->lock from
\* one step to the next, so a lock it finds held is one it left behind
\* itself: mutex_lock never returns ("lock_vfd").
vq_handle_find ==
    /\ disp.pc = "dispatch"
    /\ disp.msg.type \in {"RECV", "HUP"}
    /\ vfds_lock = "free"
    /\ LET s == idr_find(vfds, disp.msg.id)
       IN  IF s = NULL
           THEN /\ disp' = [disp EXCEPT !.pc = "return"]
                /\ UNCHANGED <<vfds_lock, vfd>>
           ELSE IF vfd[s].lock = "free"
           THEN /\ vfd' = [vfd EXCEPT ![s].lock = IN_WORK]
                /\ disp' = [disp EXCEPT !.pc = "work", !.vfd = s]
                /\ UNCHANGED vfds_lock
           ELSE /\ vfds_lock' = IN_WORK
                /\ disp' = [disp EXCEPT !.pc = "lock_vfd", !.vfd = s]
                /\ UNCHANGED vfd
    /\ UNCHANGED <<vfds, files, th, out_vq, out_lock, in_avail, closes, allocd, budget,
                   env, hist>>

\* a queue entry that starts past its first byte
qentry_offset(buf, m, pos) ==
    [buf |-> buf, data |-> m.data, data_offset |-> 1, vfds |-> m.vfds,
     vfd_offset |-> 0, pos |-> pos]

\* a queue entry: the buffer, the payload length and the attached ids of
\* its message, the two offsets, and (history) the position in the VFD's
\* stream of the byte before its first
qentry(buf, m, pos) ==
    [buf |-> buf, data |-> m.data, data_offset |-> 0, vfds |-> m.vfds,
     vfd_offset |-> 0, pos |-> pos]

\* history: readers asleep on the VFD in slot s have seen activity
Woken(s) ==
    [t \in Threads |->
       IF th[t].vfd = s /\ th[t].pc = "recv_wait"
       THEN [th[t] EXCEPT !.force_to_wait = FALSE] ELSE th[t]]

\* the rest of vq_handle_recv, under vfd->lock.  A fence VFD takes no data:
\* the message is dropped and the function returns as it stands.  Else the
\* message is queued, and its buffer stays with the VFD.
vq_handle_recv ==
    /\ disp.pc = "work"
    /\ disp.msg.type = "RECV"
    /\ LET s == disp.vfd
           pos == IF Env.record THEN hist[s].sent ELSE 0
       IN  IF vfd[s].fence
           THEN /\ disp' = [disp EXCEPT !.pc = "return"]
                /\ UNCHANGED <<vfd, th, hist>>
           ELSE /\ vfd' = [vfd EXCEPT
                      ![s].in_queue =
                          Append(@, qentry(disp.buf, disp.msg, pos)),
                      ![s].lock = "free"]
                /\ hist' = IF Env.record
                           THEN [hist EXCEPT ![s].sent = @ + disp.msg.data,
                                   ![s].ids_sent = @ + Len(disp.msg.vfds)]
                           ELSE hist
                /\ th' = Woken(s)
                /\ disp' = IdleDisp
    /\ UNCHANGED <<vfds, vfds_lock, files, out_vq, out_lock, in_avail,
                   closes, allocd, budget, env>>

\* the rest of vq_handle_hup, under vfd->lock: the VFD is hung up; the
\* readers of a VFD that is no fence are woken, and for a fence the
\* dispatcher goes on to take vi->fence_lock
vq_handle_hup ==
    /\ disp.pc = "work"
    /\ disp.msg.type = "HUP"
    /\ IF vfd[disp.vfd].fence
       THEN /\ vfd' = [vfd EXCEPT ![disp.vfd].hungup = TRUE]
            /\ disp' = [disp EXCEPT !.pc = "fence_lock"]
            /\ UNCHANGED th
       ELSE /\ vfd' = [vfd EXCEPT ![disp.vfd].hungup = TRUE,
                                  ![disp.vfd].lock = "free"]
            /\ th' = Woken(disp.vfd)
            /\ disp' = [disp EXCEPT !.pc = "return"]
    /\ UNCHANGED <<vfds, vfds_lock, files, out_vq, out_lock, in_avail, closes,
                   allocd, budget, env, hist>>

\* vi->fence_lock is a spinlock: it is held from one step to the next only
\* by a dispatcher that entered virtwl_fence_release under it
fence_lock_free == disp.pc # "fence_release"

\* vq_handle_hup of a fence VFD, under vi->fence_lock: the fence vfd->fence
\* points at, if any, is signalled and put; vfd->fence stays as it is.  A
\* put that finds no other reference calls virtwl_fence_release with
\* vi->fence_lock held, and that function begins by taking vi->fence_lock:
\* where spinlocks spin it never returns ("fence_release"), and on a
\* uniprocessor build, where spin_lock takes nothing, it runs to its end.
vq_handle_hup_fence ==
    /\ disp.pc = "fence_lock"
    /\ fence_lock_free
    /\ LET s == disp.vfd
           v == vfd[s]
       IN  \/ /\ \E w \in (IF v.fence_ptr # NULL
                            THEN dma_fence_put(
                                     dma_fence_signal_locked(v, v.fence_ptr),
                                     v.fence_ptr)
                            ELSE {v}) :
                    vfd' = [vfd EXCEPT ![s] = [w EXCEPT !.lock = "free"]]
              /\ disp' = [disp EXCEPT !.pc = "return"]
           \/ /\ v.fence_ptr # NULL
              /\ v.fences[v.fence_ptr].refs <= 1
              /\ vfd' = [vfd EXCEPT ![s] =
                           dma_fence_free(
                               dma_fence_signal_locked(v, v.fence_ptr),
                               v.fence_ptr)]
              /\ disp' = [disp EXCEPT !.pc = "fence_release"]
    /\ UNCHANGED <<vfds, vfds_lock, files, th, out_vq, out_lock, in_avail,
                   closes, allocd, budget, env, hist>>

\* vq_dispatch_hdr after a handler that asks for it: the buffer goes back
\* to the receive queue
vq_dispatch_return ==
    /\ disp.pc = "return"
    /\ in_avail' = vq_return_inbuf_locked(in_avail, disp.buf)
    /\ disp' = IdleDisp
    /\ UNCHANGED <<vfds, vfds_lock, vfd, files, th, out_vq, out_lock, closes, allocd,
                   budget, env, hist>>

\* -------------------------------------------------------- system calls
\* a thread that is back in user space and owes no deferred release
\* a system call begins
Begin(t) ==
    /\ th[t].pc = "idle"
    /\ \A u \in UserThreads : th[u].pc = "idle" => ThreadNo[t] <= ThreadNo[u]
    /\ Input

\* a file some system call is working on holds a reference
InUse(f) == \E u \in UserThreads : th[u].fd = f /\ th[u].pc # "oops"

\* -------------------------------------------------------- attachments
\* The references virtwl_vfd_send has on the object behind one descriptor
\* of vfd_fds: to the file (fdget), to a dma_buf (dma_buf_get), to a fence
\* (sync_file_get_fence); and, in the same shape, what it has noted of
\* them in vfd_files[i], virtgpu_dma_bufs[i] and virtgpu_dma_fence[i].
NoRef == [file |-> 0, dma_buf |-> 0, fence |-> 0]

\* what a descriptor of the caller can be: no open file, the file of a
\* VFD, the sync file of a fence made by this driver or by virtio_gpu, a
\* dma_buf, any other file
AttachKinds ==
    {"nofile", "vfd", "local_fence", "virtgpu_fence", "dma_buf", "other"}
MaxAttach == 2
RECURSIVE SeqsUpTo(_, _)
SeqsUpTo(S, n) ==
    IF n = 0 THEN {<<>>}
    ELSE SeqsUpTo(S, n - 1)
         \cup {Append(q, x) : q \in {r \in SeqsUpTo(S, n - 1) : Len(r) = n - 1},
                              x \in S}
AttachLists2 == SeqsUpTo(AttachKinds, MaxAttach)

\* virtwl_vfd_send, put_files: fdput(vfd_files[i]), dma_buf_put and
\* dma_fence_put of what the arrays hold; what is left of held
put_files(held, stored) ==
    [i \in DOMAIN held |->
       [file |-> held[i].file - stored[i].file,
        dma_buf |-> held[i].dma_buf - stored[i].dma_buf,
        fence |-> held[i].fence - stored[i].fence]]

\* one round of the loop of virtwl_vfd_send over vfd_fds, for a descriptor
\* of kind k: the references held and noted after it, and the error it
\* leaves the loop with, if any
virtwl_vfd_send_fd(k, use_send_vfd_v2) ==
    LET vfd_file == k # "nofile"
        is_vfd == k = "vfd"
        \* sync_file_get_fence, called when the file is not a VFD's
        fence == k \in {"local_fence", "virtgpu_fence"}
        is_local_fence == k = "local_fence"
        \* dma_buf_get, called when there is no fence
        dma_buf == k = "dma_buf"
    IN  IF ~vfd_file
        THEN [held |-> NoRef, stored |-> NoRef, ret |-> "EBADFD"]
        ELSE IF is_vfd
        THEN [held |-> [NoRef EXCEPT !.file = 1],
              stored |-> [NoRef EXCEPT !.file = 1], ret |-> "0"]
        ELSE IF fence /\ is_local_fence
        THEN [held |-> [NoRef EXCEPT !.file = 1, !.fence = 1],
              stored |-> [NoRef EXCEPT !.file = 1], ret |-> "0"]
        ELSE IF dma_buf
        THEN \* fdput(vfd_file); the dma_buf is kept
             [held |-> [NoRef EXCEPT !.dma_buf = 1],
              stored |-> [NoRef EXCEPT !.dma_buf = 1], ret |-> "0"]
        ELSE IF fence /\ use_send_vfd_v2
        THEN \* fdput(vfd_file); the fence is kept
             [held |-> [NoRef EXCEPT !.fence = 1],
              stored |-> [NoRef EXCEPT !.fence = 1], ret |-> "0"]
        ELSE \* not handled: fdput(vfd_file), dma_fence_put(fence) if any
             [held |-> NoRef, stored |-> NoRef, ret |-> "EINVAL"]

\* the loop: it stops at the first descriptor it cannot take
RECURSIVE virtwl_vfd_send_fds(_, _)
virtwl_vfd_send_fds_next(one, rest) ==
    [held |-> <<one.held>> \o rest.held,
     stored |-> <<one.stored>> \o rest.stored,
     ret |-> IF one.ret # "0" THEN one.ret ELSE rest.ret]

virtwl_vfd_send_fds(fds, use_send_vfd_v2) ==
    IF fds = <<>> THEN [held |-> <<>>, stored |-> <<>>, ret |-> "0"]
    ELSE virtwl_vfd_send_fds_next(
             virtwl_vfd_send_fd(Head(fds), use_send_vfd_v2),
             IF virtwl_vfd_send_fd(Head(fds), use_send_vfd_v2).ret # "0"
             THEN [held |-> <<>>, stored |-> <<>>, ret |-> "0"]
             ELSE virtwl_vfd_send_fds(Tail(fds), use_send_vfd_v2))

\* --------------------------------------------------------- send queue
num_free == OutRingSize - Cardinality(out_vq)

\* do_vfd_close going on to virtwl_vfd_remove without the wait
do_vfd_close_queued_nowait(ret) == IF ret # "0" THEN "ret" ELSE "unlink1"

\* do_vfd_close going on to virtwl_vfd_remove after a failed vq_queue_out
do_vfd_close_queued_remove(ret) == IF ret # "0" THEN "unlink1" ELSE "wait"

\* do_vfd_close after vq_queue_out returned ret: wait for the completion,
\* or leave through free_ctrl_close with the error
do_vfd_close_queued(ret) == IF ret # "0" THEN "ret" ELSE "wait"

\* where an operation goes once vq_queue_out has returned ret: do_new
\* unwinds through unlock_free_vfd, send returns the error
QueuedPc(op, ret) ==
    CASE op = "close" -> do_vfd_close_queued(ret)
      [] op = "new" -> IF ret # "0" THEN "unlink1" ELSE "wait"
      [] OTHER -> IF ret # "0" THEN "ret" ELSE "wait"

\* a failed vq_queue_out that leaves the request on the ring
QueueFailed_queued(t, err) ==
    /\ th' = [th EXCEPT ![t].ret = err, ![t].pc = QueuedPc(th[t].op, err),
                        ![t].held = put_files(@, th[t].stored)]
    /\ vfds_lock' = IF th[t].op = "new" THEN "free" ELSE vfds_lock
    /\ out_vq' = out_vq \cup {t}
    /\ UNCHANGED closes

\* a failed vq_queue_out; do_new's unlock_free_vfd drops vi->vfds_lock
QueueFailed(t, err) ==
    /\ th' = [th EXCEPT ![t].ret = err, ![t].pc = QueuedPc(th[t].op, err),
                        ![t].held = put_files(@, th[t].stored)]
    /\ vfds_lock' = IF th[t].op = "new" THEN "free" ELSE vfds_lock
    /\ UNCHANGED <<out_vq, closes>>

\* virtqueue_add_sgs succeeded: the request is on the ring, kick
QueueAdded(t) ==
    /\ out_vq' = out_vq \cup {t}
    /\ th' = [th EXCEPT ![t].pc = QueuedPc(th[t].op, "0")]
    /\ closes' = IF th[t].op = "close"
                 THEN [closes EXCEPT ![th[t].vfd] = @ + 1] ELSE closes
    /\ UNCHANGED vfds_lock

\* virtqueue_add_sgs: what it may return as the ring stands
virtqueue_add_sgs ==
    (IF num_free > 0 THEN {"0"} ELSE {"ENOSPC"})
    \cup (IF Env.add_err THEN {"EIO"} ELSE {})

\* vq_queue_out leaving the -EAGAIN path with the lock held
vq_queue_out_unlock_eagain(t, path) == IF path = "EAGAIN" THEN t ELSE "free"

\* vq_queue_out: the owner of vq_locks[VIRTWL_VQ_OUT] as each path leaves
\* it: added ("0"), -EAGAIN, to the wait ("wait"), -EBUSY, another error
vq_queue_out_unlock(t, path) == "free"

\* vq_queue_out going to the wait whatever nonblock is
vq_queue_out_nospc_wait(nonblock) == "wait"

\* vq_queue_out when virtqueue_add_sgs returns -ENOSPC: the path it takes
vq_queue_out_nospc(nonblock) == IF nonblock THEN "EAGAIN" ELSE "wait"

\* One pass of vq_queue_out's loop under the lock, for a caller whose
\* nonblock is one of nonblocks: the request is added and the queue kicked;
\* or the ring is full, and a non-blocking caller gets -EAGAIN while a
\* blocking one goes to wait_event_timeout; or the add fails otherwise.
vq_queue_out_pass(t, nonblocks) ==
    /\ out_lock = "free"
    /\ \E ret \in virtqueue_add_sgs :
         CASE ret = "0" ->
                /\ QueueAdded(t)
                /\ out_lock' = vq_queue_out_unlock(t, "0")
           [] ret = "ENOSPC" ->
                \E nonblock \in nonblocks :
                  IF vq_queue_out_nospc(nonblock) = "EAGAIN"
                  THEN /\ QueueFailed(t, "EAGAIN")
                       /\ out_lock' = vq_queue_out_unlock(t, "EAGAIN")
                  ELSE /\ th' = [th EXCEPT ![t].pc = "qwait"]
                       /\ out_lock' = vq_queue_out_unlock(t, "wait")
                       /\ UNCHANGED <<vfds_lock, out_vq, closes>>
           [] OTHER ->
                /\ QueueFailed(t, ret)
                /\ out_lock' = vq_queue_out_unlock(t, ret)

\* vq_queue_out, first pass.  do_vfd_close and virtwl_vfd_dmabuf_sync
\* always block; the others pass filp->f_flags & O_NONBLOCK.
vq_queue_out(t) ==
    /\ th[t].pc = "queue"
    /\ vq_queue_out_pass(t, IF th[t].op \in {"close", "sync"} THEN {FALSE}
                            ELSE Env.nonblock)
    /\ UNCHANGED <<vfds, vfd, files, in_avail, disp, allocd, budget, env, hist>>

\* wait_event_timeout(vi->out_waitq, vq->num_free > 0, HZ) ends with
\* capacity in sight: the caller goes for the lock again
vq_queue_out_retry(t) ==
    /\ th[t].pc = "qwait"
    /\ num_free > 0
    /\ th' = [th EXCEPT ![t].pc = "requeue"]
    /\ UNCHANGED <<vfds, vfds_lock, vfd, files, out_vq, out_lock, in_avail,
                   disp, closes, allocd, budget, env, hist>>

\* a later pass of the loop, which only a blocking caller makes
vq_queue_out_again(t) ==
    /\ th[t].pc = "requeue"
    /\ vq_queue_out_pass(t, {FALSE})
    /\ UNCHANGED <<vfds, vfd, files, in_avail, disp, allocd, budget, env, hist>>

\* the timeout passes with the ring still full: -EBUSY
vq_queue_out_timeout(t) ==
    /\ th[t].pc = "qwait"
    /\ num_free = 0
    /\ QueueFailed(t, "EBUSY")
    /\ out_lock' = vq_queue_out_unlock(t, "EBUSY")
    /\ UNCHANGED <<vfds, vfd, files, in_avail, disp, allocd, budget, env, hist>>

\* --------------------------------------------------------------- close
\* do_vfd_close(s) begins: the request is built from vfd->id
StartClose(s, todo) ==
    [IdleThread EXCEPT !.op = "close", !.pc = "queue", !.vfd = s,
                       !.todo = todo]

\* virtwl_vfd_release: the last reference to the file is gone
virtwl_vfd_release(t) ==
    /\ Begin(t)
    /\ \E f \in Fds :
         /\ files[f] \in Slots
         /\ ~InUse(f)
         /\ files' = [files EXCEPT ![f] = NULL]
         /\ th' = [th EXCEPT ![t] = StartClose(files[f], <<>>)]
    /\ UNCHANGED <<vfds, vfds_lock, vfd, out_vq, out_lock, in_avail, disp, closes,
                   allocd, env, hist>>

\* virtwl_vfd_lock_unlink without its idr_remove
virtwl_vfd_lock_unlink_keeps(idr, v) == idr

\* virtwl_vfd_lock_unlink: what it does to the idr
virtwl_vfd_lock_unlink(idr, v) == idr_remove(idr, v.id)

\* virtwl_vfd_lock_unlink: mutex_lock(&vfd->lock) under vi->vfds_lock
virtwl_vfd_lock_unlink_locked(v) == v.lock = "free"

\* virtwl_vfd_lock_unlink with both locks: idr_remove, unlock both.  Then
\* close (virtwl_vfd_remove) returns the queued buffers and frees the VFD;
\* do_new's unwinding frees it as it is.
Unlinked(t) ==
    LET s == th[t].vfd
    IN  /\ vfds' = virtwl_vfd_lock_unlink(vfds, vfd[s])
        /\ allocd' = idr_remove(allocd, vfd[s].id)
        /\ vfds_lock' = "free"
        /\ IF th[t].op = "close"
           THEN /\ in_avail' = ReturnAll(in_avail, vfd[s].in_queue)
                /\ vfd' = [vfd EXCEPT ![s] =
                             virtwl_vfd_free([@ EXCEPT !.in_queue = <<>>])]
                /\ th' = [th EXCEPT ![t].pc = "ret", ![t].ret = "0"]
           ELSE /\ vfd' = [vfd EXCEPT ![s] = virtwl_vfd_free(@)]
                /\ th' = [th EXCEPT ![t].pc = "ret"]
                /\ UNCHANGED in_avail

\* virtwl_vfd_lock_unlink: mutex_lock(&vi->vfds_lock), then the VFD's lock
lock_unlink_vfds(t) ==
    /\ th[t].pc = "unlink1"
    /\ vfds_lock = "free"
    /\ IF virtwl_vfd_lock_unlink_locked(vfd[th[t].vfd])
       THEN Unlinked(t)
       ELSE /\ vfds_lock' = t
            /\ th' = [th EXCEPT ![t].pc = "unlink2"]
            /\ UNCHANGED <<vfds, vfd, in_avail, allocd>>
    /\ UNCHANGED <<files, out_vq, out_lock, disp, closes, budget, env, hist>>

\* mutex_lock(&vfd->lock) returns
lock_unlink_vfd(t) ==
    /\ th[t].pc = "unlink2"
    /\ virtwl_vfd_lock_unlink_locked(vfd[th[t].vfd])
    /\ Unlinked(t)
    /\ UNCHANGED <<files, out_vq, out_lock, disp, closes, budget, env, hist>>

\* the call returns to user space; on the way the files put by fput are
\* released (virtwl_vfd_release -> do_vfd_close)
return_to_user(t) ==
    /\ th[t].pc = "ret"
    /\ th' = [th EXCEPT ![t] =
                IF th[t].todo # <<>>
                THEN StartClose(Head(th[t].todo), Tail(th[t].todo))
                ELSE IdleThread]
    /\ UNCHANGED <<vfds, vfds_lock, vfd, files, out_vq, out_lock, in_avail, disp,
                   closes, allocd, budget, env, hist>>

\* the last descriptor of a sync file is closed: the file is released and
\* its reference to the fence put
sync_file_release(t) ==
    /\ Begin(t)
    /\ \E f \in Fds :
         /\ files[f] \notin Slots \cup {NULL}
         /\ vfd[sync_file_vfd(files[f])].fences[sync_file_fence(files[f])].refs
              <= 1 => fence_lock_free
         /\ files' = [files EXCEPT ![f] = NULL]
         /\ \E w \in dma_fence_put(vfd[sync_file_vfd(files[f])],
                                   sync_file_fence(files[f])) :
              vfd' = [vfd EXCEPT ![sync_file_vfd(files[f])] = w]
    /\ UNCHANGED <<vfds, vfds_lock, th, out_vq, out_lock, in_avail, disp,
                   closes, allocd, env, hist>>

\* the VFDs on vi->fence_release_list
RECURSIVE fence_release_list(_, _)
fence_release_list(vf, s) ==
    IF s > MaxVfd THEN <<>>
    ELSE (IF vf[s].fence_release_entry THEN <<s>> ELSE <<>>)
         \o fence_release_list(vf, s + 1)

\* virtwl_fence_release_handler: the work item takes the whole list and
\* calls do_vfd_close for each VFD on it, one after the other
virtwl_fence_release_handler ==
    /\ th[FENCE_RELEASE_WORK].pc = "idle"
    /\ fence_lock_free
    /\ fence_release_list(vfd, 1) # <<>>
    /\ th' = [th EXCEPT ![FENCE_RELEASE_WORK] =
                StartClose(Head(fence_release_list(vfd, 1)),
                           Tail(fence_release_list(vfd, 1)))]
    /\ vfd' = [s \in Slots |->
                [vfd[s] EXCEPT !.fence_release_entry = FALSE]]
    /\ UNCHANGED <<vfds, vfds_lock, files, out_vq, out_lock, in_avail, disp,
                   closes, allocd, budget, env, hist>>

\* a thread about to work on a VFD whose memory was freed may fault
uaf_oops(t) ==
    /\ th[t].pc \in {"queue", "unlink1", "unlink2", "recv_lock1",
                     "recv_lock2", "recv_wait"}
    /\ vfd[th[t].vfd].mem # "live"
    /\ th' = [th EXCEPT ![t].pc = "oops"]
    /\ UNCHANGED <<vfds, vfds_lock, vfd, files, out_vq, out_lock, in_avail, disp,
                   closes, allocd, budget, env, hist>>

\* the state a sleeper of wait_event_timeout is in, and the states
\* wake_up_interruptible_all wakes sleepers from
TASK_UNINTERRUPTIBLE == "TASK_UNINTERRUPTIBLE"
TASK_INTERRUPTIBLE == "TASK_INTERRUPTIBLE"

\* the state the senders waiting for capacity sleep in (vq_queue_out)
out_waitq_state == TASK_UNINTERRUPTIBLE

\* try_to_wake_up: a sleeper is woken only from a state the wake-up names
try_to_wake_up(state, mode) == state = mode

\* vq_out_work_handler's wake_up_interruptible_all(&vi->out_waitq): a
\* sender it wakes sees num_free > 0 and goes for the lock again
wake_up_out_waitq ==
    [t \in Threads |->
       IF th[t].pc = "qwait"
          /\ try_to_wake_up(out_waitq_state, TASK_INTERRUPTIBLE)
       THEN [th[t] EXCEPT !.pc = "requeue"] ELSE th[t]]

\* ------------------------------------------------------- completions
\* wait_for_completion returns with the answer of type r: close goes on to
\* virtwl_vfd_remove, send returns the translated answer, dmabuf_sync
\* returns the 0 of vq_queue_out, do_new drops vi->vfds_lock and goes on or
\* unwinds.  The flags the host answers a
\* guest's request with are those of the kind asked for, never a fence's.
wait_for_completion(t, r) ==
    LET err == virtwl_resp_err(r)
    IN  CASE th[t].op = "close" ->
               /\ th' = [wake_up_out_waitq EXCEPT ![t].pc = "unlink1", ![t].resp = r]
               /\ UNCHANGED <<vfd, vfds_lock>>
          [] th[t].op \in {"write", "send"} ->
               /\ th' = [wake_up_out_waitq EXCEPT ![t].pc = "ret", ![t].resp = r,
                                   ![t].ret = err,
                                   ![t].cnt = IF err = "0" THEN th[t].len
                                              ELSE 0,
                                   ![t].held = put_files(@, th[t].stored)]
               /\ UNCHANGED <<vfd, vfds_lock>>
          [] th[t].op = "sync" ->
               /\ th' = [wake_up_out_waitq EXCEPT ![t].pc = "ret", ![t].resp = r]
               /\ UNCHANGED <<vfd, vfds_lock>>
          [] th[t].op = "new" ->
               /\ vfds_lock' = "free"
               /\ th' = IF err # "0"
                        THEN [wake_up_out_waitq EXCEPT ![t].pc = "unlink1", ![t].resp = r,
                                        ![t].ret = err]
                        ELSE [wake_up_out_waitq EXCEPT ![t].pc = "file", ![t].resp = r]
               /\ UNCHANGED vfd

\* The host answers a request, writing a response type into its header;
\* vq_out_work_handler takes it off the ring and completes it, and the
\* waiter goes on.  do_vfd_close never reads the answer.
vq_out_work_handler ==
    \E t \in out_vq :
      /\ out_lock = "free"
      /\ out_lock' = "free"
      /\ out_vq' = out_vq \ {t}
      /\ \E r \in Env.resp :
           /\ th[t].op = "close" => r = "OK"
           /\ wait_for_completion(t, r)
      /\ UNCHANGED <<vfds, files, in_avail, disp, closes, allocd, budget,
                     env, hist>>

\* ----------------------------------------------------------------- new
\* virtwl_ioctl_new -> do_new: an unknown type is refused at once; else the
\* request buffer and the VFD are allocated
virtwl_ioctl_new(t) ==
    /\ Begin(t)
    /\ \E known \in BOOLEAN :
         IF ~known
         THEN /\ th' = [th EXCEPT ![t] = [IdleThread EXCEPT
                          !.op = "new", !.pc = "ret", !.ret = "EINVAL"]]
              /\ UNCHANGED <<vfd, closes>>
         ELSE /\ Cardinality(NonLive) > PendingNew
              /\ \E s \in kzalloc :
                   /\ vfd' = [vfd EXCEPT ![s] = virtwl_vfd_alloc]
                   /\ closes' = [closes EXCEPT ![s] = 0]
                   /\ th' = [th EXCEPT ![t] = [IdleThread EXCEPT
                               !.op = "new", !.pc = "new_lock", !.vfd = s]]
    /\ UNCHANGED <<vfds, vfds_lock, files, out_vq, out_lock, in_avail, disp, allocd,
                   env, hist>>

\* do_new: the id range of guest-created VFDs
do_new_idr_alloc(idr) == idr_alloc(idr, 1, VIRTWL_MAX_ALLOC)

\* do_new: mutex_lock(&vi->vfds_lock), idr_alloc, the request is filled in.
\* A NEW_DMABUF request of the wrong size leaves through unlock_free_vfd.
\* Otherwise vi->vfds_lock stays held for the round trip.
do_new_lock(t) ==
    /\ th[t].pc = "new_lock"
    /\ vfds_lock = "free"
    /\ LET s == th[t].vfd
           ret == do_new_idr_alloc(vfds)
       IN  IF ret <= 0
           THEN /\ vfd' = [vfd EXCEPT ![s] = virtwl_vfd_free(@)]
                /\ th' = [th EXCEPT ![t].pc = "ret", ![t].ret = "ENOSPC"]
                /\ UNCHANGED <<vfds, vfds_lock, allocd>>
           ELSE /\ vfd' = [vfd EXCEPT ![s].id = ret]
                /\ vfds' = idr_insert(vfds, ret, s)
                /\ allocd' = idr_insert(allocd, ret,
                                        [vfd |-> s, by |-> "do_new"])
                /\ \E short_dmabuf \in BOOLEAN :
                     IF short_dmabuf
                     THEN /\ th' = [th EXCEPT ![t].pc = "unlink1",
                                              ![t].ret = "EINVAL"]
                          /\ UNCHANGED vfds_lock
                     ELSE /\ th' = [th EXCEPT ![t].pc = "queue"]
                          /\ vfds_lock' = t
    /\ UNCHANGED <<files, out_vq, out_lock, in_avail, disp, closes, budget, env, hist>>

FreeFds == {f \in Fds : files[f] = NULL}

\* virtwl_ioctl_new after do_new succeeded: anon_inode_getfile,
\* get_unused_fd_flags, copy_to_user, fd_install.  err_close_vfd closes the
\* VFD; err_put_file and err_put_fd put the file first, and its release
\* (virtwl_vfd_release) runs when the call returns.
virtwl_ioctl_new_file(t) ==
    /\ th[t].pc = "file"
    /\ LET s == th[t].vfd
       IN  \E outcome \in {"ok", "no_file", "no_fd"} :
             CASE outcome = "ok" ->
                    /\ FreeFds # {}
                    /\ LET f == CHOOSE x \in FreeFds :
                                  \A y \in FreeFds : x <= y
                       IN  files' = [files EXCEPT ![f] = s]
                    /\ th' = [th EXCEPT ![t].pc = "ret", ![t].ret = "0"]
               [] outcome = "no_file" ->
                    /\ th' = [th EXCEPT ![t] = StartClose(s, <<>>)]
                    /\ UNCHANGED files
               [] outcome = "no_fd" ->
                    /\ th' = [th EXCEPT ![t] = StartClose(s, <<s>>)]
                    /\ UNCHANGED files
    /\ UNCHANGED <<vfds, vfds_lock, vfd, out_vq, out_lock, in_avail, disp, closes,
                   allocd, budget, env, hist>>

\* ---------------------------------------------------------------- read
\* a test of the data offset alone
qentry_empty_data(e) == e.data_offset >= e.data

\* vfd_qentry_free_if_empty: both offsets have reached their ends
qentry_empty(e) == e.vfd_offset >= Len(e.vfds) /\ e.data_offset >= e.data

\* a count that is not cut down to what is there
Min_left(a, b) == a

\* if (len - read_count < to_read) to_read = len - read_count, and the like
Min(a, b) == IF a < b THEN a ELSE b

\* the n bytes of entry e after its first from, as stream positions
Bytes(e, from, n) == [i \in 1..n |-> e.pos + from + i]

\* vfd_qentry_free_if_empty on entry e: the receive queue after it
vfd_qentry_free_if_empty(avail, e) ==
    IF qentry_empty(e) THEN vq_return_inbuf_locked(avail, e.buf) ELSE avail

\* entry e stays at the head of what is left of the queue unless it was
\* freed
Kept(e, q) == IF qentry_empty(e) THEN q ELSE <<e>> \o q

\* vfd_out_locked that copies and leaves data_offset where it was
vfd_out_locked_advance_none(e, to_read) == e

\* vfd_out_locked: qentry->data_offset += to_read
vfd_out_locked_advance(e, to_read) ==
    [e EXCEPT !.data_offset = @ + to_read]

\* vfd_out_locked: copy out of the queue from its head until len bytes are
\* read; an entry left with nothing goes back to the receive queue.  out
\* is what copy_to_user wrote, in order.
RECURSIVE vfd_out_locked(_, _, _, _)
\* the entry e2 at the head of the list was read from: the loop ends
\* (read_count >= len) or goes on with the entries after it
vfd_out_next(e2, copied, rest) ==
    [q |-> Kept(e2, rest.q), cnt |-> rest.cnt, avail |-> rest.avail,
     out |-> copied \o rest.out]

vfd_out_entry(e, to_read, tail, len, read_count, avail) ==
    vfd_out_next(
        vfd_out_locked_advance(e, to_read),
        Bytes(e, e.data_offset, to_read),
        IF read_count + to_read >= len
        THEN [q |-> tail, cnt |-> read_count + to_read,
              avail |-> vfd_qentry_free_if_empty(avail,
                            vfd_out_locked_advance(e, to_read)),
              out |-> <<>>]
        ELSE vfd_out_locked(tail, len, read_count + to_read,
                 vfd_qentry_free_if_empty(avail,
                     vfd_out_locked_advance(e, to_read))))

vfd_out_locked(q, len, read_count, avail) ==
    IF q = <<>>
    THEN [q |-> q, cnt |-> read_count, avail |-> avail, out |-> <<>>]
    ELSE vfd_out_entry(Head(q),
             Min(len - read_count, Head(q).data - Head(q).data_offset),
             Tail(q), len, read_count, avail)

\* the VFDs the ids name that idr_find knows, in order
RECURSIVE FoundVfds(_, _)
FoundVfds(idr, ids) ==
    IF ids = <<>> THEN <<>>
    ELSE (IF idr_find(idr, Head(ids)) = NULL THEN <<>>
          ELSE <<idr_find(idr, Head(ids))>>)
         \o FoundVfds(idr, Tail(ids))

\* vfd_out_vfds_locked: go through the queue taking attached ids until
\* count VFDs are found; every id passed moves vfd_offset on, known or
\* not; an entry left with nothing goes back to the receive queue
RECURSIVE vfd_out_vfds_locked(_, _, _, _, _)
vfd_out_vfds_next(e2, found, passed, rest) ==
    [q |-> Kept(e2, rest.q), vfds |-> found \o rest.vfds,
     avail |-> rest.avail, passed |-> passed + rest.passed]

\* vfds_to_read ids of entry e are taken
vfd_out_vfds_entry(e, vfds_to_read, found, tail, idr, count, read_count, avail) ==
    vfd_out_vfds_next(
        [e EXCEPT !.vfd_offset = @ + vfds_to_read], found, vfds_to_read,
        vfd_out_vfds_locked(tail, idr, count, read_count + Len(found),
            vfd_qentry_free_if_empty(avail,
                [e EXCEPT !.vfd_offset = @ + vfds_to_read])))

\* an entry with no id left is passed over as it is
vfd_out_vfds_skip(e, rest) == [rest EXCEPT !.q = <<e>> \o @]

vfd_out_vfds_ids(e, vfds_to_read, tail, idr, count, read_count, avail) ==
    vfd_out_vfds_entry(e, vfds_to_read,
        FoundVfds(idr, SubSeq(e.vfds, e.vfd_offset + 1,
                              e.vfd_offset + vfds_to_read)),
        tail, idr, count, read_count, avail)

vfd_out_vfds_locked(q, idr, count, read_count, avail) ==
    IF q = <<>> \/ read_count >= count
    THEN [q |-> q, vfds |-> <<>>, avail |-> avail, passed |-> 0]
    ELSE IF Len(Head(q).vfds) - Head(q).vfd_offset <= 0
    THEN vfd_out_vfds_skip(Head(q),
             vfd_out_vfds_locked(Tail(q), idr, count, read_count, avail))
    ELSE vfd_out_vfds_ids(Head(q),
             Min(Len(Head(q).vfds) - Head(q).vfd_offset, count - read_count),
             Tail(q), idr, count, read_count, avail)

\* virtwl_vfd_recv under the locks, from the top of its outer loop: what it
\* leaves in the queue, what it read, and how it goes on.  vfd_count is the
\* room for attached ids (none for read()).  It returns with what it read,
\* or with nothing from a hung-up VFD; it leaves the locks to wait when the
\* queue is empty, or (force_to_wait) when it read nothing and has no room
\* for the ids still queued; with room for ids, nothing read and a queue
\* that stays as it is, the outer loop goes round for ever ("spin").
RECURSIVE virtwl_vfd_recv(_, _, _, _, _)
RecvResult(q, avail, cnt, out, got, passed, go, force_to_wait) ==
    [q |-> q, avail |-> avail, cnt |-> cnt, out |-> out, vfds |-> got,
     passed |-> passed, go |-> go, force_to_wait |-> force_to_wait]

\* a later round of the outer loop follows one that passed ids unknown
RecvAgain(passed, r) == [r EXCEPT !.passed = @ + passed]

\* after vfd_out_locked gave o and then vfd_out_vfds_locked, if there is
\* room for ids, gave w
virtwl_vfd_recv_pass(v, len, vfd_count, idr, o, w) ==
    IF o.cnt # 0 \/ w.vfds # <<>>
    THEN RecvResult(w.q, w.avail, o.cnt, o.out, w.vfds, w.passed, "return",
                    FALSE)
    ELSE IF vfd_count = 0 /\ w.q # <<>>
    THEN RecvResult(w.q, w.avail, 0, <<>>, <<>>, 0,
                    IF v.hungup THEN "return" ELSE "wait", ~v.hungup)
    ELSE IF w.q = v.in_queue
    THEN RecvResult(w.q, w.avail, 0, <<>>, <<>>, w.passed, "spin", FALSE)
    ELSE RecvAgain(w.passed,
             virtwl_vfd_recv([v EXCEPT !.in_queue = w.q], len, vfd_count,
                             idr, w.avail))

virtwl_vfd_recv_ids(v, len, vfd_count, idr, o) ==
    virtwl_vfd_recv_pass(v, len, vfd_count, idr, o,
        IF vfd_count > 0
        THEN vfd_out_vfds_locked(o.q, idr, vfd_count, 0, o.avail)
        ELSE [q |-> o.q, vfds |-> <<>>, avail |-> o.avail, passed |-> 0])

virtwl_vfd_recv(v, len, vfd_count, idr, avail) ==
    IF v.in_queue = <<>>
    THEN RecvResult(v.in_queue, avail, 0, <<>>, <<>>, 0,
                    IF v.hungup THEN "return" ELSE "wait", FALSE)
    ELSE virtwl_vfd_recv_ids(v, len, vfd_count, idr,
             vfd_out_locked(v.in_queue, len, 0, avail))

\* virtwl_vfd_read
virtwl_vfd_read(t) ==
    /\ Begin(t)
    /\ \E f \in Fds, len \in Env.lens :
         /\ files[f] \in Slots
         /\ th' = [th EXCEPT ![t] = [IdleThread EXCEPT
                     !.op = "read", !.pc = "recv_lock1", !.fd = f,
                     !.vfd = files[f], !.len = len,
                     !.hup = vfd[files[f]].hungup]]
    /\ UNCHANGED <<vfds, vfds_lock, vfd, files, out_vq, out_lock, in_avail,
                   disp, closes, allocd, env, hist>>

\* virtwl_ioctl_recv: the same, with a buffer that may be empty and room
\* for VIRTWL_SEND_MAX_ALLOCS attached VFDs
virtwl_ioctl_recv(t) ==
    /\ Begin(t)
    /\ \E f \in Fds, len \in Env.lens \cup {0} :
         /\ files[f] \in Slots
         /\ th' = [th EXCEPT ![t] = [IdleThread EXCEPT
                     !.op = "recv", !.pc = "recv_lock1", !.fd = f,
                     !.vfd = files[f], !.len = len,
                     !.hup = vfd[files[f]].hungup]]
    /\ UNCHANGED <<vfds, vfds_lock, vfd, files, out_vq, out_lock, in_avail,
                   disp, closes, allocd, env, hist>>

\* the first n free descriptors, lowest first
RECURSIVE get_unused_fds(_, _)
get_unused_fds(free, n) ==
    IF n = 0 THEN <<>>
    ELSE LET f == CHOOSE x \in free : \A y \in free : x <= y
         IN  <<f>> \o get_unused_fds(free \ {f}, n - 1)

\* virtwl_ioctl_recv, under vi->fence_lock, for the fence it just made for
\* VFD v: the VFD keeps a reference of its own to it, or, hung up
\* already, the fence is signalled here
virtwl_ioctl_recv_fence_locked(v, i) ==
    IF ~v.hungup
    THEN [dma_fence_get(v, i) EXCEPT !.fence_ptr = i]
    ELSE dma_fence_signal_locked(v, i)

\* the fence branch of its loop for VFD v
virtwl_ioctl_recv_fence(v) ==
    virtwl_ioctl_recv_fence_locked(
        [v EXCEPT !.fences = Append(@, virtwl_fence)], Len(v.fences) + 1)

\* the loop of virtwl_ioctl_recv over the VFDs got, none of its steps
\* failing: the VFDs as it leaves them, and the file each of got has
RECURSIVE virtwl_ioctl_recv_loop(_, _)
virtwl_ioctl_recv_loop_file(vf, s) ==
    IF vf[s].fence THEN sync_file(s, Len(vf[s].fences)) ELSE s

virtwl_ioctl_recv_loop_cons(file, rest) ==
    [vfd |-> rest.vfd, files |-> <<file>> \o rest.files]

virtwl_ioctl_recv_loop_next(vf, got) ==
    virtwl_ioctl_recv_loop_cons(virtwl_ioctl_recv_loop_file(vf, Head(got)),
                                virtwl_ioctl_recv_loop(vf, Tail(got)))

virtwl_ioctl_recv_loop(vf, got) ==
    IF got = <<>> THEN [vfd |-> vf, files |-> <<>>]
    ELSE virtwl_ioctl_recv_loop_next(
             IF vf[Head(got)].fence
             THEN [vf EXCEPT ![Head(got)] = virtwl_ioctl_recv_fence(@)]
             ELSE vf,
             got)

\* fput of the files a failed virtwl_ioctl_recv made: a sync file's
\* reference to its fence is put (the VFDs as that can leave them); the
\* release of a [virtwl_vfd] file closes its VFD when the call returns
RECURSIVE fput_sync_files(_, _)
fput_sync_files_next(vfs, file, rest) ==
    IF file \in Slots THEN fput_sync_files(vfs, rest)
    ELSE fput_sync_files(
             UNION {{[vf EXCEPT ![sync_file_vfd(file)] = w] :
                       w \in dma_fence_put(vf[sync_file_vfd(file)],
                                           sync_file_fence(file))} :
                    vf \in vfs},
             rest)

fput_sync_files(vfs, fs) ==
    IF fs = <<>> THEN vfs ELSE fput_sync_files_next(vfs, Head(fs), Tail(fs))

\* the [virtwl_vfd] files among fs
RECURSIVE vfd_files(_)
vfd_files(fs) ==
    IF fs = <<>> THEN <<>>
    ELSE (IF Head(fs) \in Slots THEN <<Head(fs)>> ELSE <<>>)
         \o vfd_files(Tail(fs))

\* How virtwl_ioctl_recv can fail at the k-th of the n VFDs it got, and
\* what it then returns: the length cannot be copied out (before the
\* first); no memory for the fence, or no sync file for it; no file for a
\* VFD; no free descriptor, where ret is left as the copy of the length set
\* it; the descriptors cannot be copied out (after the last).
RecvFailures(vf, got, k) ==
    IF k = 0 THEN {"len"}
    ELSE IF k = Len(got) + 1 THEN {"fds"}
    ELSE IF vf[got[k]].fence THEN {"fence", "sync", "fd"}
    ELSE {"file", "fd"}

virtwl_ioctl_recv_ret(fail) ==
    CASE fail \in {"len", "fds"} -> "EFAULT"
      [] fail \in {"fence", "sync", "file"} -> "ENOMEM"
      [] fail = "fd" -> "0"

\* the VFD of a fence whose sync file could not be made: dma_fence_put
\* drops the only reference, and the fence is gone again
virtwl_ioctl_recv_no_sync(v) == virtwl_fence_release(v)

\* virtwl_ioctl_recv failing with fail at the k-th VFD, after its loop went
\* through the first done of them: free_vfds closes the VFDs its array
\* still has and puts the files
RecvFailed(t, got, done, k, fail) ==
    \E vf \in fput_sync_files(
                 {IF fail = "sync"
                  THEN [done.vfd EXCEPT ![got[k]] =
                           virtwl_ioctl_recv_no_sync(@)]
                  ELSE done.vfd},
                 done.files) :
      /\ vfd' = vf
      /\ th' = [th EXCEPT
                  ![t].pc = "free_vfds",
                  ![t].ret = virtwl_ioctl_recv_ret(fail),
                  ![t].vfds = SubSeq(got, IF fail \in {"sync", "fd"}
                                          THEN k + 1
                                          ELSE IF k = 0 THEN 1 ELSE k,
                                     Len(got)),
                  ![t].todo = vfd_files(done.files)]
      /\ UNCHANGED files

\* virtwl_ioctl_recv after virtwl_vfd_recv gave it the VFDs th[t].vfds:
\* each gets a file (a fence VFD the sync file of a new fence) and a
\* descriptor, and all are installed; or one of its steps fails
virtwl_ioctl_recv_files(t) ==
    /\ th[t].pc = "recv_files"
    /\ (\E i \in DOMAIN th[t].vfds : vfd[th[t].vfds[i]].fence)
         => fence_lock_free
    /\ LET got == th[t].vfds
           n == Len(got)
       IN  \/ /\ Cardinality(FreeFds) >= n
              /\ LET fds == get_unused_fds(FreeFds, n)
                     done == virtwl_ioctl_recv_loop(vfd, got)
                 IN  /\ files' = [f \in Fds |->
                                   IF \E i \in 1..n : fds[i] = f
                                   THEN done.files[
                                            CHOOSE i \in 1..n : fds[i] = f]
                                   ELSE files[f]]
                     /\ vfd' = done.vfd
              /\ th' = [th EXCEPT ![t].pc = "ret", ![t].ret = "0",
                                  ![t].vfds = <<>>]
           \/ \E k \in 0..(n + 1) :
                \E fail \in RecvFailures(vfd, got, k) :
                  RecvFailed(t, got,
                             virtwl_ioctl_recv_loop(vfd,
                                 SubSeq(got, 1, IF fail = "fd" THEN k
                                                ELSE k - 1)),
                             k, fail)
    /\ UNCHANGED <<vfds, vfds_lock, out_vq, out_lock, in_avail, disp,
                   closes, allocd, budget, env, hist>>

\* free_vfds: do_vfd_close of the first VFD left in the array, the others
\* after it; then the call returns
virtwl_ioctl_recv_free_vfds(t) ==
    /\ th[t].pc = "free_vfds"
    /\ th' = [th EXCEPT ![t] =
                IF th[t].vfds # <<>>
                THEN StartClose(Head(th[t].vfds),
                                Tail(th[t].vfds) \o th[t].todo)
                ELSE [th[t] EXCEPT !.pc = "ret"]]
    /\ UNCHANGED <<vfds, vfds_lock, vfd, files, out_vq, out_lock, in_avail,
                   disp, closes, allocd, budget, env, hist>>

\* virtwl_vfd_recv with both locks came to r: it returns, or drops the
\* locks to wait, or to fail with -EAGAIN if filp->f_flags has O_NONBLOCK
\* at that moment, or never comes out of its loop
RecvDone(t, s, r) ==
    /\ in_avail' = r.avail
    /\ hist' = IF Env.record
               THEN [hist EXCEPT ![s].got = @ \o r.out,
                                 ![s].ids_got = @ + r.passed]
               ELSE hist
    /\ IF r.go = "spin"
       THEN /\ vfd' = [vfd EXCEPT ![s].in_queue = r.q, ![s].lock = t]
            /\ vfds_lock' = t
            /\ th' = [th EXCEPT ![t].pc = "recv_spin"]
            /\ UNCHANGED files
       ELSE /\ vfd' = [vfd EXCEPT ![s].in_queue = r.q]
            /\ vfds_lock' = "free"
            /\ IF r.go = "return"
               THEN /\ th' = [th EXCEPT
                           ![t].pc = IF th[t].op = "recv"
                                     THEN "recv_files" ELSE "ret",
                           ![t].cnt = r.cnt,
                           ![t].ret = "0",
                           ![t].vfds = r.vfds]
                    /\ UNCHANGED files
               ELSE /\ \E nonblock \in Env.nonblock :
                         th' = [th EXCEPT
                           ![t].pc = IF nonblock THEN "ret" ELSE "recv_wait",
                           ![t].cnt = 0,
                           ![t].ret = IF nonblock THEN "EAGAIN" ELSE "0",
                           ![t].force_to_wait =
                               r.force_to_wait /\ ~nonblock]
                    /\ UNCHANGED files

RecvLocked(t) ==
    RecvDone(t, th[t].vfd,
             virtwl_vfd_recv(vfd[th[t].vfd], th[t].len,
                             IF th[t].op = "recv"
                             THEN VIRTWL_SEND_MAX_ALLOCS ELSE 0,
                             vfds, in_avail))

\* virtwl_vfd_recv: mutex_lock(&vi->vfds_lock), then the VFD's lock
virtwl_vfd_recv_lock(t) ==
    /\ th[t].pc = "recv_lock1"
    /\ vfds_lock = "free"
    /\ IF vfd[th[t].vfd].lock = "free"
       THEN RecvLocked(t)
       ELSE /\ vfds_lock' = t
            /\ th' = [th EXCEPT ![t].pc = "recv_lock2"]
            /\ UNCHANGED <<vfd, files, in_avail, hist>>
    /\ UNCHANGED <<vfds, out_vq, out_lock, disp, closes, allocd, budget, env>>

\* mutex_lock(&vfd->lock) returns
virtwl_vfd_recv_lock_vfd(t) ==
    /\ th[t].pc = "recv_lock2"
    /\ vfd[th[t].vfd].lock = "free"
    /\ RecvLocked(t)
    /\ UNCHANGED <<vfds, out_vq, out_lock, disp, closes, allocd, budget, env>>

\* wait_event_interruptible(vfd->in_waitq, !list_empty || hungup)
recv_wait_cond(v) == v.in_queue # <<>> \/ v.hungup

virtwl_vfd_recv_wake(t) ==
    /\ th[t].pc = "recv_wait"
    /\ recv_wait_cond(vfd[th[t].vfd])
    /\ th' = [th EXCEPT ![t].pc = "recv_lock1", ![t].force_to_wait = FALSE]
    /\ UNCHANGED <<vfds, vfds_lock, vfd, files, out_vq, out_lock, in_avail,
                   disp, closes, allocd, budget, env, hist>>

\* a signal ends the wait: -ERESTARTSYS
virtwl_vfd_recv_signal(t) ==
    /\ th[t].pc = "recv_wait"
    /\ ~recv_wait_cond(vfd[th[t].vfd])
    /\ th' = [th EXCEPT ![t].pc = "ret", ![t].ret = "ERESTARTSYS",
                        ![t].force_to_wait = FALSE]
    /\ UNCHANGED <<vfds, vfds_lock, vfd, files, out_vq, out_lock, in_avail,
                   disp, closes, allocd, budget, env, hist>>

\* --------------------------------------------------------------- write
WriteLens == {0, 1}

\* a test for the empty send that never finds one
virtwl_vfd_send_empty_never(len, vfd_count) == FALSE

\* virtwl_vfd_send: if (len == 0 && vfd_count == 0) return 0
virtwl_vfd_send_empty(len, vfd_count) == len = 0 /\ vfd_count = 0

\* virtwl_vfd_write -> virtwl_vfd_send with no attachments: an empty write
\* succeeds at once, any other is sent to the host
virtwl_vfd_write(t) ==
    /\ Begin(t)
    /\ \E f \in Fds, len \in WriteLens :
         /\ files[f] \in Slots
         /\ th' = [th EXCEPT ![t] = [IdleThread EXCEPT
                     !.op = "write", !.fd = f, !.vfd = files[f],
                     !.len = len, !.hup = vfd[files[f]].hungup,
                     !.pc = IF virtwl_vfd_send_empty(len, 0) THEN "ret"
                            ELSE "queue"]]
    /\ UNCHANGED <<vfds, vfds_lock, vfd, files, out_vq, out_lock, in_avail, disp,
                   closes, allocd, env, hist>>

\* what stops virtwl_vfd_send between the loop and vq_queue_out: kmalloc or
\* vmalloc (-ENOMEM), encode_vfd_ids_foreign (-EBADFD for a fence that is
\* not virtio_gpu's), copy_from_user (-EFAULT); or nothing
SendFailures == {"0", "ENOMEM", "EBADFD", "EFAULT"}

\* virtwl_ioctl_send -> virtwl_vfd_send with the descriptors fds: they are
\* resolved; a failure leaves through put_files; the empty send returns;
\* else the request is built and goes to vq_queue_out
virtwl_vfd_send(t, f, len, r, fail) ==
    th' = [th EXCEPT ![t] =
        IF r.ret # "0"
        THEN [IdleThread EXCEPT
                !.op = "send", !.fd = f, !.vfd = files[f], !.len = len,
                !.pc = "ret", !.ret = r.ret, !.stored = r.stored,
                !.held = put_files(r.held, r.stored)]
        ELSE IF virtwl_vfd_send_empty(len, Len(r.held))
        THEN [IdleThread EXCEPT
                !.op = "send", !.fd = f, !.vfd = files[f], !.len = len,
                !.pc = "ret"]
        ELSE IF fail # "0"
        THEN [IdleThread EXCEPT
                !.op = "send", !.fd = f, !.vfd = files[f], !.len = len,
                !.pc = "ret", !.ret = fail, !.stored = r.stored,
                !.held = put_files(r.held, r.stored)]
        ELSE [IdleThread EXCEPT
                !.op = "send", !.fd = f, !.vfd = files[f], !.len = len,
                !.pc = "queue", !.stored = r.stored, !.held = r.held]]

virtwl_ioctl_send(t) ==
    /\ Begin(t)
    /\ \E f \in Fds, len \in WriteLens, fds \in AttachLists2,
          fail \in SendFailures :
         /\ files[f] \in Slots
         /\ virtwl_vfd_send(t, f, len,
                virtwl_vfd_send_fds(fds, Env.use_send_vfd_v2), fail)
    /\ UNCHANGED <<vfds, vfds_lock, vfd, files, out_vq, out_lock, in_avail,
                   disp, closes, allocd, env, hist>>

\* --------------------------------------------------------- dmabuf sync
\* flags a caller may pass: legal ones, ones with a bit above the mask,
\* bit 31 alone
SyncFlags == {0, 2, 7, 8, 11, VFD_ILLEGAL_SIGN_BIT}

\* flags & ~mask, for a mask of low bits
AndNot(flags, mask) == flags - (flags % (mask + 1))

\* a check of the flags that lets everything through
dmabuf_sync_flags_invalid_never(flags) == FALSE

\* if (ioctl_dmabuf_sync.flags & ~DMA_BUF_SYNC_VALID_FLAGS_MASK)
dmabuf_sync_flags_invalid(flags) ==
    AndNot(flags, DMA_BUF_SYNC_VALID_FLAGS_MASK) # 0

\* virtwl_ioctl_dmabuf_sync: flags outside the mask are refused; else
\* virtwl_vfd_dmabuf_sync builds the request and goes to vq_queue_out
virtwl_ioctl_dmabuf_sync(t) ==
    /\ Begin(t)
    /\ \E f \in Fds, flags \in SyncFlags :
         /\ files[f] \in Slots
         /\ th' = [th EXCEPT ![t] = [IdleThread EXCEPT
                     !.op = "sync", !.fd = f, !.vfd = files[f],
                     !.flags = flags,
                     !.pc = IF dmabuf_sync_flags_invalid(flags)
                            THEN "ret" ELSE "queue",
                     !.ret = IF dmabuf_sync_flags_invalid(flags)
                             THEN "EINVAL" ELSE "0"]]
    /\ UNCHANGED <<vfds, vfds_lock, vfd, files, out_vq, out_lock, in_avail,
                   disp, closes, allocd, env, hist>>

\* ---------------------------------------------------------------- mmap
\* unsigned long has BITS_PER_LONG bits, a page 2^PAGE_SHIFT bytes
BITS_PER_LONG == 32
PAGE_SHIFT == 12
PAGE_SIZE == 2 ^ PAGE_SHIFT
\* The lengths and offsets of a mapping are whole pages, and are held as
\* numbers of pages: an unsigned long of bytes that is a multiple of
\* PAGE_SIZE is a number of pages modulo ULONG_PAGES.
ULONG_PAGES == 2 ^ (BITS_PER_LONG - PAGE_SHIFT)

\* PAGE_ALIGN of a u32 number of bytes, in pages
PAGE_ALIGN(size) == ((size + PAGE_SIZE - 1) \div PAGE_SIZE) % ULONG_PAGES

\* vm_size + (vma->vm_pgoff << PAGE_SHIFT) > PAGE_ALIGN(vfd->size), in
\* unsigned long arithmetic
virtwl_vfd_mmap_range(vm_pages, vm_pgoff, size) ==
    (vm_pages + (vm_pgoff % ULONG_PAGES)) % ULONG_PAGES > PAGE_ALIGN(size)

\* what virtwl_vfd_mmap can return for VFD v; io_remap_pfn_range can fail
virtwl_vfd_mmap_ret(v, vm_pages, vm_pgoff) ==
    IF v.pfn = 0 THEN {"EACCES"}
    ELSE IF virtwl_vfd_mmap_range(vm_pages, vm_pgoff, v.size) THEN {"EINVAL"}
    ELSE {"0", "ENOMEM"}

\* sizes in bytes of the VFDs that are mapped, lengths in pages of the
\* mappings, and their offsets in pages
MaxPages == 2
MapSizes == {1, PAGE_SIZE, PAGE_SIZE + 1, MaxPages * PAGE_SIZE}
MapPages == 1..(MaxPages + 1)
MapPgoffs == 0..MaxPages \cup ((ULONG_PAGES - MaxPages)..ULONG_PAGES)

\* virtwl_vfd_mmap: th[t].len is vm_size and th[t].cnt is vma->vm_pgoff,
\* both in pages
virtwl_vfd_mmap(t) ==
    /\ Begin(t)
    /\ \E f \in Fds, vm_pages \in MapPages, vm_pgoff \in MapPgoffs :
         /\ files[f] \in Slots
         /\ \E ret \in virtwl_vfd_mmap_ret(vfd[files[f]], vm_pages, vm_pgoff) :
              th' = [th EXCEPT ![t] = [IdleThread EXCEPT
                       !.op = "mmap", !.pc = "ret", !.fd = f,
                       !.vfd = files[f], !.len = vm_pages, !.cnt = vm_pgoff,
                       !.ret = ret]]
    /\ UNCHANGED <<vfds, vfds_lock, vfd, files, out_vq, out_lock, in_avail,
                   disp, closes, allocd, env, hist>>

\* ------------------------------------------------------- specification
Dispatcher ==
    \/ vq_in_work_handler
    \/ vq_handle_new
    \/ vq_dispatch_default
    \/ vq_handle_find
    \/ vq_dispatch_return
    \/ vq_handle_recv
    \/ vq_handle_hup
    \/ vq_handle_hup_fence

SendQueue(t) ==
    \/ vq_queue_out(t)
    \/ vq_queue_out_retry(t)
    \/ vq_queue_out_again(t)
    \/ vq_queue_out_timeout(t)

Close(t) ==
    \/ virtwl_vfd_release(t)
    \/ lock_unlink_vfds(t)
    \/ lock_unlink_vfd(t)
    \/ return_to_user(t)
    \/ uaf_oops(t)

New(t) ==
    \/ virtwl_ioctl_new(t)
    \/ do_new_lock(t)
    \/ virtwl_ioctl_new_file(t)

Read(t) ==
    \/ virtwl_vfd_read(t)
    \/ virtwl_vfd_recv_lock(t)
    \/ virtwl_vfd_recv_lock_vfd(t)
    \/ virtwl_vfd_recv_wake(t)
    \/ virtwl_vfd_recv_signal(t)

Next ==
    \/ Dispatcher
    \/ vq_out_work_handler
    \/ \E t \in UserThreads :
         SendQueue(t) \/ Close(t) \/ New(t) \/ Read(t) \/ virtwl_vfd_write(t)

Spec == Init /\ [][Next]_vars


\* ------------------------------------------------ the senders' runs
\* A state Spec reaches with one input: the guest created VFD 1 and holds
\* it as descriptor 1.
SendStart ==
    /\ vfds = (1 :> 1)
    /\ vfds_lock = "free"
    /\ vfd = (1 :> [virtwl_vfd_alloc EXCEPT !.id = 1])
             @@ [s \in Slots |-> UnusedSlot]
    /\ files = (1 :> 1) @@ [f \in Fds |-> NULL]
    /\ th = [t \in Threads |-> IdleThread]
    /\ out_vq = {}
    /\ out_lock = "free"
    /\ in_avail = [i \in 1..NumBufs |-> i]
    /\ disp = IdleDisp
    /\ closes = [s \in Slots |-> 0]
    /\ allocd = (1 :> [vfd |-> 1, by |-> "do_new"])

SendInit == SendStart /\ budget = 0 /\ env = "send" /\ hist = <<>>

\* the threads write to the VFD and ask for dmabuf syncs on it again and
\* again, and the host answers
SendNext ==
    \/ vq_out_work_handler
    \/ \E t \in UserThreads :
         \/ virtwl_vfd_write(t)
         \/ virtwl_ioctl_dmabuf_sync(t)
         \/ SendQueue(t)
         \/ return_to_user(t)

\* The scheduler runs every runnable thread, the timeout of a wait for
\* capacity does pass, and the host answers every request; nothing obliges
\* a thread to write again.
SendFairness ==
    /\ WF_vars(vq_out_work_handler)
    /\ \A t \in UserThreads : WF_vars(SendQueue(t) \/ return_to_user(t))

SendSpec == SendInit /\ [][SendNext]_vars /\ SendFairness

\* ------------------------------------- the runs of sends with attachments
AttachInit ==
    SendStart /\ budget = 0 /\ env \in {"attach", "attach_v1"} /\ hist = <<>>

AttachNext ==
    \/ vq_out_work_handler
    \/ \E t \in UserThreads :
         \/ virtwl_vfd_write(t)
         \/ virtwl_ioctl_send(t)
         \/ SendQueue(t)
         \/ return_to_user(t)

AttachSpec == AttachInit /\ [][AttachNext]_vars

\* ------------------------------------------- the runs of the NEW ioctl
\* from bring-up: threads create VFDs while the host sends what it likes
NewInit ==
    /\ env = "new"
    /\ hist = <<>>
    /\ vfds = <<>>
    /\ vfds_lock = "free"
    /\ vfd = [s \in Slots |-> UnusedSlot]
    /\ files = [f \in Fds |-> NULL]
    /\ th = [t \in Threads |-> IdleThread]
    /\ out_vq = {}
    /\ out_lock = "free"
    /\ in_avail = [i \in 1..NumBufs |-> i]
    /\ disp = IdleDisp
    /\ closes = [s \in Slots |-> 0]
    /\ allocd = <<>>
    /\ budget = 0

NewNext ==
    \/ Dispatcher
    \/ vq_out_work_handler
    \/ \E t \in UserThreads :
         \/ New(t)
         \/ SendQueue(t)
         \/ lock_unlink_vfds(t)
         \/ lock_unlink_vfd(t)
         \/ return_to_user(t)

NewSpec == NewInit /\ [][NewNext]_vars

\* ------------------------------------------ the non-blocking callers' runs
NonblockInit == SendStart /\ budget = 0 /\ env = "nonblock" /\ hist = <<>>

\* callers with O_NONBLOCK read and write the VFD; none of them closes, so
\* nobody waits for room on the send queue
NonblockNext ==
    \/ vq_out_work_handler
    \/ \E t \in UserThreads :
         \/ virtwl_vfd_write(t)
         \/ virtwl_vfd_read(t)
         \/ virtwl_vfd_recv_lock(t)
         \/ vq_queue_out(t)
         \/ return_to_user(t)

NonblockSpec == NonblockInit /\ [][NonblockNext]_vars

\* ------------------------------------------------ the readers' runs
ReadInit == SendStart /\ budget = 0 /\ env = "read" /\ hist = NoHist

\* the host sends VFD 1 data and the threads read it, with read() and with
\* the RECV ioctl; nobody closes or writes
ReadNext ==
    \/ vq_in_work_handler
    \/ vq_handle_find
    \/ vq_handle_recv
    \/ vq_handle_hup
    \/ vq_dispatch_return
    \/ \E t \in UserThreads :
         \/ virtwl_vfd_read(t)
         \/ virtwl_ioctl_recv(t)
         \/ virtwl_vfd_recv_lock(t)
         \/ virtwl_vfd_recv_lock_vfd(t)
         \/ virtwl_vfd_recv_wake(t)
         \/ virtwl_vfd_recv_signal(t)
         \/ virtwl_ioctl_recv_files(t)
         \/ virtwl_ioctl_recv_free_vfds(t)
         \/ return_to_user(t)

ReadSpec == ReadInit /\ [][ReadNext]_vars

\* ------------------------------------------------- the runs of mmap
\* the guest holds VFD 1, of some size and with or without backing pages,
\* as descriptor 1
MapInit ==
    /\ env = "map"
    /\ hist = <<>>
    /\ vfds = (1 :> 1)
    /\ vfds_lock = "free"
    /\ \E pfn \in {0, 1}, size \in MapSizes :
         vfd = (1 :> [virtwl_vfd_alloc EXCEPT !.id = 1, !.pfn = pfn,
                                              !.size = size])
               @@ [s \in Slots |-> UnusedSlot]
    /\ files = (1 :> 1) @@ [f \in Fds |-> NULL]
    /\ th = [t \in Threads |-> IdleThread]
    /\ out_vq = {}
    /\ out_lock = "free"
    /\ in_avail = [i \in 1..NumBufs |-> i]
    /\ disp = IdleDisp
    /\ closes = [s \in Slots |-> 0]
    /\ allocd = (1 :> [vfd |-> 1, by |-> "do_new"])
    /\ budget = 0

MapNext == \E t \in UserThreads : virtwl_vfd_mmap(t) \/ return_to_user(t)

MapSpec == MapInit /\ [][MapNext]_vars

\* ----------------------------------------------- the runs with fences
\* A state Spec reaches with two inputs: the guest created VFD 1 and holds
\* it as descriptor 1, and the host announced the fence VFD HostId1.
FenceStart ==
    /\ hist = <<>>
    /\ vfds = (1 :> 1) @@ (HostId1 :> 2)
    /\ vfds_lock = "free"
    /\ vfd = (1 :> [virtwl_vfd_alloc EXCEPT !.id = 1])
             @@ (2 :> [virtwl_vfd_alloc EXCEPT !.id = HostId1,
                                               !.fence = TRUE])
             @@ [s \in Slots |-> UnusedSlot]
    /\ files = (1 :> 1) @@ [f \in Fds |-> NULL]
    /\ th = [t \in Threads |-> IdleThread]
    /\ out_vq = {}
    /\ out_lock = "free"
    /\ in_avail = [i \in 1..NumBufs |-> i]
    /\ disp = IdleDisp
    /\ closes = [s \in Slots |-> 0]
    /\ allocd = (1 :> [vfd |-> 1, by |-> "do_new"])
                @@ (HostId1 :> [vfd |-> 2, by |-> "vq_handle_new"])
    /\ budget = 0

FenceInit == FenceStart /\ env = "fence"

\* the dispatcher's steps on the messages of these runs
FenceDispatcher ==
    \/ vq_handle_find
    \/ vq_handle_recv
    \/ vq_handle_hup
    \/ vq_handle_hup_fence
    \/ vq_dispatch_return

\* the steps of a thread inside the RECV ioctl, or closing a VFD
FenceProgress(t) ==
    \/ virtwl_vfd_recv_lock(t)
    \/ virtwl_vfd_recv_lock_vfd(t)
    \/ virtwl_vfd_recv_wake(t)
    \/ virtwl_ioctl_recv_files(t)
    \/ virtwl_ioctl_recv_free_vfds(t)
    \/ SendQueue(t)
    \/ lock_unlink_vfds(t)
    \/ lock_unlink_vfd(t)
    \/ return_to_user(t)

\* the threads take what VFD 1 got with the RECV ioctl and close the sync
\* files they were given; the release work closes the VFDs of released
\* fences
FenceNext ==
    \/ vq_in_work_handler
    \/ FenceDispatcher
    \/ vq_out_work_handler
    \/ virtwl_fence_release_handler
    \/ \E t \in UserThreads :
         \/ virtwl_ioctl_recv(t)
         \/ virtwl_vfd_recv_signal(t)
         \/ sync_file_release(t)
    \/ \E t \in Threads : FenceProgress(t)

FenceSpec == FenceInit /\ [][FenceNext]_vars

\* The scheduler runs every runnable thread and work item, the timeout of
\* a wait for capacity does pass, and the host answers every request;
\* nothing obliges the guest to make another system call, the host to send
\* another message, or a signal to arrive.
FenceFairness ==
    /\ WF_vars(FenceDispatcher)
    /\ WF_vars(vq_out_work_handler)
    /\ WF_vars(virtwl_fence_release_handler)
    /\ \A t \in Threads : WF_vars(FenceProgress(t))

\* the same runs, one input shorter, under that scheduling
FenceLiveInit == FenceStart /\ env = "fence_live"

FenceLiveSpec == FenceLiveInit /\ [][FenceNext]_vars /\ FenceFairness

\* ------------------------------------------- the blocked reader's runs
\* A state Spec reaches with three inputs: the guest created VFD 1 and holds
\* it as descriptor 1, the host announced the fence VFD HostId1 in the first
\* receive buffer, and u1 sleeps in a blocking read of descriptor 1.
LiveStart ==
    /\ vfds = (1 :> 1) @@ (HostId1 :> 2)
    /\ vfds_lock = "free"
    /\ vfd = (1 :> [virtwl_vfd_alloc EXCEPT !.id = 1])
             @@ (2 :> [virtwl_vfd_alloc EXCEPT !.id = HostId1,
                                               !.fence = TRUE])
             @@ [s \in Slots |-> UnusedSlot]
    /\ files = (1 :> 1) @@ [f \in Fds |-> NULL]
    /\ th = ("u1" :> [IdleThread EXCEPT !.op = "read", !.pc = "recv_wait",
                                        !.fd = 1, !.vfd = 1, !.len = 1])
            @@ [t \in Threads |-> IdleThread]
    /\ out_vq = {}
    /\ out_lock = "free"
    /\ in_avail = [i \in 1..NumBufs |-> IF i = NumBufs THEN 1 ELSE i + 1]
    /\ disp = IdleDisp
    /\ closes = [s \in Slots |-> 0]
    /\ allocd = (1 :> [vfd |-> 1, by |-> "do_new"])
                @@ (HostId1 :> [vfd |-> 2, by |-> "vq_handle_new"])

LiveInit == LiveStart /\ budget = 0 /\ env = "base" /\ hist = <<>>

\* the steps of the receive work once a message is in its hands
DispatcherProgress ==
    \/ vq_handle_new
    \/ vq_dispatch_default
    \/ vq_handle_find
    \/ vq_dispatch_return
    \/ vq_handle_recv
    \/ vq_handle_hup
    \/ vq_handle_hup_fence

\* the steps a thread inside a system call takes when it is scheduled
Progress(t) ==
    \/ SendQueue(t)
    \/ lock_unlink_vfds(t)
    \/ lock_unlink_vfd(t)
    \/ return_to_user(t)
    \/ do_new_lock(t)
    \/ virtwl_ioctl_new_file(t)
    \/ virtwl_vfd_recv_lock(t)
    \/ virtwl_vfd_recv_lock_vfd(t)
    \/ virtwl_vfd_recv_wake(t)

\* The scheduler runs every runnable thread and work item, and the host
\* answers every request; nothing obliges the guest to make another system
\* call, the host to send another message, or a signal to arrive.
Fairness ==
    /\ WF_vars(DispatcherProgress)
    /\ WF_vars(vq_out_work_handler)
    /\ \A t \in UserThreads : WF_vars(Progress(t))

LiveSpec == LiveInit /\ [][Next]_vars /\ Fairness

\* ------------------------------------------------- the host's runs
\* The device after bring-up, with no VFD yet, and no system call made: the
\* receive work alone handles what the host sends.
DispInit ==
    /\ env = "disp"
    /\ hist = <<>>
    /\ vfds = <<>>
    /\ vfds_lock = "free"
    /\ vfd = [s \in Slots |-> UnusedSlot]
    /\ files = [f \in Fds |-> NULL]
    /\ th = [t \in Threads |-> IdleThread]
    /\ out_vq = {}
    /\ out_lock = "free"
    /\ in_avail = [i \in 1..NumBufs |-> i]
    /\ disp = IdleDisp
    /\ closes = [s \in Slots |-> 0]
    /\ allocd = <<>>
    /\ budget = 0

DispSpec == DispInit /\ [][Dispatcher]_vars

\* the receive work runs whenever it has a message in its hands; nothing
\* obliges the host to send another one
DispLiveSpec == DispSpec /\ WF_vars(DispatcherProgress)

\* --------------------------------------------------------------- claims
Handles == NewIds \cup (0..(MaxVfd + 1)) \cup DOMAIN vfds \cup DOMAIN allocd

\* C1: a lookup of handle h returns the VFD registered under h if and only
\* if h was allocated (do_new, vq_handle_new) and not yet removed
\* (virtwl_vfd_lock_unlink); for every other handle it returns nothing.
C1_LookupIffAllocated ==
    \A h \in Handles :
        idr_find(vfds, h) = IF h \in DOMAIN allocd THEN allocd[h].vfd ELSE NULL

\* a close has removed its handle while another handle stays registered
C1_Witness ==
    \E t \in UserThreads :
        /\ th[t].op = "close" /\ th[t].pc = "ret" /\ th[t].resp # ""
        /\ idr_find(vfds, vfd[th[t].vfd].id) = NULL
        /\ DOMAIN vfds # {}

\* C2 as stated: the handle is removed before the close request is
\* submitted, so while the request is with the host no lookup of the handle
\* finds the VFD.
C2_RemovedBeforeRoundTrip ==
    \A t \in UserThreads :
        (th[t].op = "close" /\ t \in out_vq)
            => idr_find(vfds, vfd[th[t].vfd].id) = NULL

\* C2 as amended: do_vfd_close removes the handle only after its close
\* request was submitted and answered: a close that has reached the removal
\* has its answer and no request on the send queue.
C2_RemovedAfterRoundTrip ==
    \A t \in UserThreads :
        (th[t].op = "close" /\ th[t].pc \in {"unlink1", "unlink2"})
            => (th[t].resp # "" /\ t \notin out_vq)

\* a close has its answer and the handle still finds the VFD
C2_Witness ==
    \E t \in UserThreads :
        /\ th[t].op = "close" /\ th[t].pc = "unlink1" /\ th[t].resp # ""
        /\ vfd[th[t].vfd].mem = "live"
        /\ idr_find(vfds, vfd[th[t].vfd].id) = th[t].vfd

\* C3: the dispatcher never works on a freed VFD: a VFD that vq_handle_recv
\* or vq_handle_hup found and locks, or has locked, is live.
C3_DispatcherOnLiveVfd ==
    disp.pc \in {"work", "lock_vfd", "fence_lock"}
        => vfd[disp.vfd].mem = "live"

\* C4: do_vfd_close frees the VFD only after its close request made the
\* round trip, and a close whose request could not be submitted returns the
\* error and leaves the registry and the VFD as they were.
C4_FreedAfterRoundTrip ==
    [][\A t \in UserThreads :
         /\ (th[t].op = "close" /\ th[t].pc \in {"queue", "qwait", "requeue"}
             /\ th'[t].pc \notin {"queue", "qwait", "requeue", "wait",
                                  "oops"})
                => /\ th'[t].pc = "ret"
                   /\ th'[t].ret # "0"
                   /\ UNCHANGED <<vfds, vfd, in_avail>>
         /\ (th[t].op = "close" /\ th'[t].op = "close"
             /\ th[t].pc \in {"unlink1", "unlink2"} /\ th'[t].pc = "ret")
                => th[t].resp # ""
         /\ (th[t].op = "close" /\ th'[t] # th[t] /\ th[t].pc # "idle"
             /\ (vfds' # vfds \/ vfd' # vfd))
                => th[t].resp # ""]_vars

\* a close returned Busy and its VFD is registered and live as before
C4_Witness ==
    \E t \in UserThreads :
        /\ th[t].op = "close" /\ th[t].pc = "ret" /\ th[t].ret = "EBUSY"
        /\ vfd[th[t].vfd].mem = "live"
        /\ idr_find(vfds, vfd[th[t].vfd].id) = th[t].vfd

\* C5: at most one close request is ever queued for a VFD.
C5_OneClosePerVfd == \A s \in Slots : closes[s] <= 1

\* C6: a handle do_new assigned lies in [1, VIRTWL_MAX_ALLOC) and has
\* neither the host bit nor the sign bit; a handle vq_handle_new registered
\* has the host bit and not the sign bit; handle 0 is never registered.
C6_HandleRanges ==
    /\ 0 \notin DOMAIN vfds
    /\ \A h \in DOMAIN vfds :
         /\ h \in DOMAIN allocd
         /\ allocd[h].by = "do_new" =>
              /\ h >= 1 /\ h < VIRTWL_MAX_ALLOC
              /\ ~HasBit(h, VFD_HOST_VFD_ID_BIT)
              /\ ~HasBit(h, VFD_ILLEGAL_SIGN_BIT)
         /\ allocd[h].by = "vq_handle_new" =>
              /\ HasBit(h, VFD_HOST_VFD_ID_BIT)
              /\ ~HasBit(h, VFD_ILLEGAL_SIGN_BIT)

\* a guest handle and a host handle are registered together
C6_Witness ==
    /\ \E h \in DOMAIN vfds : h \in DOMAIN allocd /\ allocd[h].by = "do_new"
    /\ \E h \in DOMAIN vfds :
         h \in DOMAIN allocd /\ allocd[h].by = "vq_handle_new"

\* the ids C7 speaks of
C7_Dropped(id) ==
    \/ id = 0
    \/ ~HasBit(id, VFD_HOST_VFD_ID_BIT)
    \/ HasBit(id, VFD_ILLEGAL_SIGN_BIT)

\* C7: a New announcement whose id is zero, has the host bit clear or has
\* the sign bit set is dropped: handling it changes neither the registry
\* nor any VFD, and its buffer goes back to the receive queue next.
C7_InvalidNewDropped ==
    [][(disp.msg.type = "NEW" /\ C7_Dropped(disp.msg.id))
         => /\ (disp.pc = "dispatch" /\ disp'.pc # "dispatch")
                 => /\ UNCHANGED <<vfds, vfd, in_avail>>
                    /\ disp' = [disp EXCEPT !.pc = "return"]
            /\ (disp.pc = "return" /\ disp'.pc # "return")
                 => /\ UNCHANGED <<vfds, vfd>>
                    /\ in_avail' = Append(in_avail, disp.buf)]_vars

\* a New announcement with the sign bit set has been dropped while a VFD
\* is registered
C7_Witness ==
    /\ disp.pc = "return"
    /\ disp.msg.type = "NEW"
    /\ HasBit(disp.msg.id, VFD_ILLEGAL_SIGN_BIT)
    /\ DOMAIN vfds # {}

\* C8: once a non-fence VFD is hung-up, a read sleeping on it returns.
C8_HungupReadReturns ==
    \A t \in UserThreads :
        (/\ th[t].op = "read" /\ th[t].pc = "recv_wait"
         /\ vfd[th[t].vfd].mem = "live"
         /\ vfd[th[t].vfd].hungup /\ ~vfd[th[t].vfd].fence)
            ~> (th[t].pc = "ret")

\* C9: the inbound queue of a hung-up VFD never grows.
C9_NoAppendAfterHangup ==
    [][\A s \in Slots :
         (/\ vfd[s].mem = "live" /\ vfd[s].hungup
          /\ vfd'[s].mem = "live" /\ vfd'[s].hungup)
            => Len(vfd'[s].in_queue) <= Len(vfd[s].in_queue)]_vars

\* C10: a write of at least one byte begun on a hung-up VFD fails.
C10_SendFailsAfterHangup ==
    \A t \in UserThreads :
        (th[t].op = "write" /\ th[t].pc = "ret" /\ th[t].hup
         /\ th[t].len > 0)
            => th[t].ret # "0"

\* C14: a blocking read with no room for attached ids that finds, on a VFD
\* not hung-up, only messages whose bytes are consumed and whose ids are
\* not, sleeps until a message or a hangup arrives for the VFD: while none
\* has, its wait is not over.
C14_ForcedWaitSleeps ==
    \A t \in UserThreads :
        (/\ th[t].pc = "recv_wait" /\ th[t].force_to_wait
         /\ vfd[th[t].vfd].mem = "live")
            => ~recv_wait_cond(vfd[th[t].vfd])

\* C15: with the send queue full, a non-blocking submission fails at once
\* with -EAGAIN: the caller does not wait and the queue holds what it held.
C15_NonblockFullFails ==
    [][\A t \in UserThreads :
         (th[t].pc = "queue" /\ num_free = 0 /\ th'[t] # th[t])
            => /\ th'[t].pc = "ret"
               /\ th'[t].ret = "EAGAIN"
               /\ out_vq' = out_vq]_vars

\* a non-blocking write came back with -EAGAIN from a queue that is full
C15_Witness ==
    \E t \in UserThreads :
        /\ th[t].op = "write" /\ th[t].pc = "ret" /\ th[t].ret = "EAGAIN"
        /\ num_free = 0

\* C18: with O_NONBLOCK set no guest operation is ever suspended: not in the
\* read's wait for data, not in the wait for room on the send queue, not in
\* the wait for a request's completion.
C18_NonblockNeverSuspends ==
    \A t \in UserThreads : th[t].pc \notin {"recv_wait", "qwait", "wait"}

\* C16: a blocking submission that found the send queue full does not hang:
\* its wait ends with the request on the queue or with -EBUSY, whatever the
\* other senders and the completions do.
C16_SubmissionEnds ==
    \A t \in UserThreads :
        (th[t].pc = "qwait") ~> (th[t].pc \notin {"qwait", "requeue"})

\* C17: vq_queue_out leaves the send-queue lock free on every path, and a
\* submission that fails leaves the queue holding what it held.
C17_QueueLockReleased ==
    [][/\ out_lock' = "free"
       /\ \A t \in UserThreads :
            (/\ th[t].pc \in {"queue", "qwait", "requeue"}
             /\ th'[t].pc \notin {"queue", "qwait", "requeue", "wait"})
                => /\ th'[t].ret \in {"EAGAIN", "EBUSY", "EIO"}
                   /\ out_vq' = out_vq]_vars

\* a submission has failed with -EBUSY and the queue has room again, its
\* lock free
C17_Witness ==
    \E t \in UserThreads :
        /\ th[t].pc = "ret" /\ th[t].ret = "EBUSY"
        /\ num_free > 0
        /\ out_lock = "free"

\* C19: a request's completion is signalled once, by vq_out_work_handler
\* as it takes the request off the ring the host returned it on; the caller
\* goes on to read the answer only then; a request whose submission failed
\* is not on the ring and is never signalled.
C19_CompletedOnce ==
    [][\A t \in UserThreads :
         /\ (th'[t].resp # th[t].resp /\ th'[t].resp # "")
                => /\ th[t].resp = "" /\ th[t].pc = "wait"
                   /\ t \in out_vq /\ t \notin out_vq'
         /\ (th[t].pc = "wait" /\ th'[t].pc # "wait")
                => th'[t].resp # "" /\ t \notin out_vq'
         /\ (t \in out_vq /\ t \notin out_vq') => th'[t].resp # ""
         /\ (/\ th[t].pc \in {"queue", "qwait", "requeue"}
             /\ th'[t].pc \notin {"queue", "qwait", "requeue", "wait"})
                => th'[t].resp = "" /\ t \notin out_vq']_vars

\* one write has been answered and another has failed to be submitted
C19_Witness ==
    \E t, u \in UserThreads :
        /\ th[t].pc = "ret" /\ th[t].resp # ""
        /\ th[u].pc = "ret" /\ th[u].resp = "" /\ th[u].ret = "EBUSY"

\* the table C20 states
C20_Table ==
    [OK |-> "0", VFD_NEW |-> "0", VFD_NEW_DMABUF |-> "0", ERR |-> "ENODEV",
     OUT_OF_MEMORY |-> "ENOMEM", INVALID_ID |-> "ENOENT",
     INVALID_TYPE |-> "EINVAL", INVALID_FLAGS |-> "EPERM",
     INVALID_CMD |-> "ENOTTY"]

\* C20: the result of a request the host answered is the one the table
\* gives for the answer's type code: success for the three success codes,
\* its own error for each of the six error codes (so no two of them give
\* the same), and EPROTO for any other code.
C20_RespErrTable ==
    /\ \A a, b \in DOMAIN C20_Table :
         (a # b /\ C20_Table[a] # "0" /\ C20_Table[b] # "0")
            => virtwl_resp_err(a) # virtwl_resp_err(b)
    /\ \A t \in UserThreads :
         (th[t].op = "write" /\ th[t].pc = "ret" /\ th[t].resp # "")
            => th[t].ret = IF th[t].resp \in DOMAIN C20_Table
                           THEN C20_Table[th[t].resp] ELSE "EPROTO"

\* a write was answered with a type code the protocol does not have, and
\* returned EPROTO
C20_Witness ==
    \E t \in UserThreads :
        /\ th[t].op = "write" /\ th[t].pc = "ret"
        /\ th[t].resp = "UNKNOWN" /\ th[t].ret = "EPROTO"

\* how many places hold receive buffer b: the receive queue, the
\* dispatcher, the queue entries of the VFDs that exist
C13_Holders(b) ==
    Cardinality({i \in DOMAIN in_avail : in_avail[i] = b})
    + (IF disp.pc # "idle" /\ disp.buf = b THEN 1 ELSE 0)
    + Cardinality({si \in Slots \X (1..NumBufs) :
          /\ vfd[si[1]].mem = "live"
          /\ si[2] <= Len(vfd[si[1]].in_queue)
          /\ vfd[si[1]].in_queue[si[2]].buf = b})

\* C13: the buffer of a queued Recv message goes back to the receive queue
\* exactly once: a buffer that is in no VFD's queue any more and not with
\* the dispatcher is on the receive queue, once.
C13_BufferReturnedOnce == \A b \in Bufs : C13_Holders(b) = 1

\* C11: what the reads of a VFD returned, one after the other, is a prefix
\* of the bytes its queued Recv messages brought, in the order the
\* dispatcher queued them: the i-th byte returned is the i-th byte sent.
C11_ReadsArePrefix ==
    \A s \in Slots :
        /\ Len(hist[s].got) <= hist[s].sent
        /\ \A i \in 1..Len(hist[s].got) : hist[s].got[i] = i

\* one read took the first message whole and part of the second
C11_Witness ==
    /\ Len(hist[1].got) >= 2
    /\ \E i \in 1..Len(vfd[1].in_queue) :
         /\ vfd[1].in_queue[i].pos > 0
         /\ vfd[1].in_queue[i].data_offset > 0
         /\ vfd[1].in_queue[i].data_offset < vfd[1].in_queue[i].data

\* the bytes and the attached ids the entries of q still hold
RECURSIVE C12_Bytes(_)
C12_Bytes(q) ==
    IF q = <<>> THEN 0
    ELSE Head(q).data - Head(q).data_offset + C12_Bytes(Tail(q))

RECURSIVE C12_Ids(_)
C12_Ids(q) ==
    IF q = <<>> THEN 0
    ELSE Len(Head(q).vfds) - Head(q).vfd_offset + C12_Ids(Tail(q))

\* what n reads of len bytes each bring out of q, one after the other
RECURSIVE C12_Drain(_, _, _, _)
C12_DrainNext(o, len, n) == o.out \o C12_Drain(o.q, len, n - 1, o.avail)

C12_Drain(q, len, n, avail) ==
    IF n = 0 THEN <<>>
    ELSE C12_DrainNext(vfd_out_locked(q, len, 0, avail), len, n)

\* the offsets of the entries of q are within the message
C12_Within(q) ==
    \A i \in 1..Len(q) :
        /\ q[i].data_offset >= 0 /\ q[i].data_offset <= q[i].data
        /\ q[i].vfd_offset >= 0 /\ q[i].vfd_offset <= Len(q[i].vfds)

\* reads of any one size, as many as q has bytes, bring out what one read
\* of all its bytes does
C12_SameTotal(q, avail) ==
    \A len \in 1..ReadData :
        C12_Drain(q, len, C12_Bytes(q), avail)
            = vfd_out_locked(q, C12_Bytes(q), 0, avail).out

\* C12: small reads drain the queue entries to the same bytes as one read
\* that holds them all, nothing is gained or lost on the way (bytes sent =
\* bytes read + bytes left, and the same for attached ids), and an entry's
\* two offsets only grow and stay within its data length and id count.
C12_SmallReadsSameAsOne ==
    [][\A s \in Slots :
         /\ C12_Within(vfd'[s].in_queue)
         /\ C12_SameTotal(vfd'[s].in_queue, in_avail')
         /\ hist'[s].sent
                = Len(hist'[s].got) + C12_Bytes(vfd'[s].in_queue)
         /\ hist'[s].ids_sent
                = hist'[s].ids_got + C12_Ids(vfd'[s].in_queue)
         /\ \A i \in 1..Len(vfd[s].in_queue) :
              \A j \in 1..Len(vfd'[s].in_queue) :
                 vfd'[s].in_queue[j].buf = vfd[s].in_queue[i].buf
                    => /\ vfd'[s].in_queue[j].data_offset
                              >= vfd[s].in_queue[i].data_offset
                       /\ vfd'[s].in_queue[j].vfd_offset
                              >= vfd[s].in_queue[i].vfd_offset]_vars

\* a message of two bytes was drained by two reads of one byte
C12_Witness ==
    /\ hist[1].sent = 2 /\ Len(hist[1].got) = 2
    /\ vfd[1].in_queue = <<>>
    /\ \E t \in UserThreads :
         th[t].op = "read" /\ th[t].pc = "ret" /\ th[t].len = 1
         /\ th[t].cnt = 1

\* C21: a new, a send or a dmabuf sync that the host answered with an
\* error code returns a failure, the one that code stands for, never
\* success.
C21_HostErrorReturned ==
    \A t \in UserThreads :
        (/\ th[t].op \in {"new", "write", "sync"} /\ th[t].pc = "ret"
         /\ th[t].resp \notin {"", "OK", "VFD_NEW", "VFD_NEW_DMABUF"})
            => /\ th[t].ret # "0"
               /\ th[t].ret = IF th[t].resp \in DOMAIN C20_Table
                              THEN C20_Table[th[t].resp] ELSE "EPROTO"

\* C22: a dmabuf sync whose flags have a bit outside the legal mask ends
\* with EINVAL and the send queue as it was; a request on the send queue
\* has flags within the mask.
C22_BadFlagsRejected ==
    [][\A t \in UserThreads :
         /\ (th'[t].op = "sync" /\ t \in out_vq')
               => th'[t].flags \in 0..DMA_BUF_SYNC_VALID_FLAGS_MASK
         /\ (/\ th[t].pc = "idle" /\ th'[t].op = "sync"
             /\ th'[t].flags \notin 0..DMA_BUF_SYNC_VALID_FLAGS_MASK)
               => /\ th'[t].pc = "ret" /\ th'[t].ret = "EINVAL"
                  /\ out_vq' = out_vq
         /\ (/\ th[t].pc = "idle" /\ th'[t].op = "sync"
             /\ th'[t].flags \in 0..DMA_BUF_SYNC_VALID_FLAGS_MASK)
               => th'[t].pc = "queue"]_vars

\* one sync was refused for its flags while another, with legal flags, is
\* on the send queue
C22_Witness ==
    \E t, u \in UserThreads :
        /\ th[t].op = "sync" /\ th[t].pc = "ret" /\ th[t].ret = "EINVAL"
        /\ th[t].flags = 8
        /\ th[u].op = "sync" /\ u \in out_vq /\ th[u].flags = 7

\* C23: a send of no bytes and no attachments returns success with 0 bytes
\* written in one step, puts nothing on the send queue and leaves the
\* registry, the queues and the VFDs as they were.
C23_EmptySendIsNoOp ==
    [][\A t \in UserThreads :
         (/\ th[t].pc = "idle" /\ th'[t].op \in {"write", "send"}
          /\ th'[t].len = 0 /\ th'[t].stored = <<>>)
            => /\ th'[t].pc = "ret" /\ th'[t].ret = "0" /\ th'[t].cnt = 0
               /\ th'[t].resp = ""
               /\ UNCHANGED <<vfds, vfd, files, out_vq, in_avail, disp,
                              vfds_lock, out_lock>>]_vars

\* an empty write and an empty send have returned
C23_Witness ==
    /\ th["u1"].op = "write" /\ th["u1"].len = 0 /\ th["u1"].pc = "ret"
    /\ th["u1"].ret = "0"
    /\ th["u2"].op = "send" /\ th["u2"].len = 0 /\ th["u2"].pc = "ret"
    /\ th["u2"].ret = "0" /\ th["u2"].stored = <<>>

\* C24: when a send returns, on any path, it holds none of the references
\* it took while resolving its attachments.
C24_ReferencesReleased ==
    \A t \in UserThreads :
        (th[t].op \in {"write", "send"} /\ th[t].pc = "ret")
            => \A i \in DOMAIN th[t].held : th[t].held[i] = NoRef

\* C25: the step that ends a failed do_new whose handle was allocated
\* finds the VFD alive and registered under that handle, takes that handle
\* and no other out of the registry and frees the VFD; the call then
\* returns the error.
C25_FailedNewUnwound ==
    [][\A t \in UserThreads :
         (/\ th[t].op = "new" /\ th[t].pc \in {"unlink1", "unlink2"}
          /\ th'[t].pc \notin {"unlink1", "unlink2"})
            => /\ th'[t].pc = "ret"
               /\ th'[t].ret = th[t].ret /\ th'[t].ret # "0"
               /\ vfd[th[t].vfd].mem = "live"
               /\ idr_find(vfds, vfd[th[t].vfd].id) = th[t].vfd
               /\ idr_find(vfds', vfd[th[t].vfd].id) = NULL
               /\ vfd'[th[t].vfd].mem = "freed"
               /\ \A id \in DOMAIN vfds :
                    id # vfd[th[t].vfd].id
                       => idr_find(vfds', id) = idr_find(vfds, id)
               /\ DOMAIN vfds' \subseteq DOMAIN vfds]_vars

\* C26: a fence bridged from a fence VFD is signalled exactly once: no
\* fence is signalled twice, and once the VFD is hung up and the hangup
\* handler is through with it, each of its fences has been signalled.
C26_FenceSignalledOnce ==
    \A s \in Slots : \A i \in DOMAIN vfd[s].fences :
        /\ vfd[s].fences[i].signals <= 1
        /\ (vfd[s].hungup /\ ~(disp.pc = "fence_lock" /\ disp.vfd = s))
              => vfd[s].fences[i].signals = 1

\* C27: releasing a fence closes nothing by itself, it only puts the VFD on
\* the deferred-release list; the release work later runs the close
\* protocol for each VFD that was enqueued, and every VFD that is enqueued
\* is eventually closed.
C27_EnqueuedEventuallyClosed ==
    \A s \in Slots : vfd[s].fence_release_entry ~> vfd[s].mem = "freed"

\* the slots a sequence of VFDs names
C29_Range(seq) == {seq[i] : i \in DOMAIN seq}

\* C29: a RECV ioctl that fails after virtwl_vfd_recv gave it attached VFDs
\* returns an error, installs no descriptor, and sees every one of those
\* VFDs closed: by free_vfds, by the release of its file when the call
\* returns, or, for a fence, by the release work.
C29_FailedRecvCleansUp ==
    [][\A t \in UserThreads :
         (/\ th[t].pc = "recv_files" /\ th[t].vfds # <<>>
          /\ th'[t].pc = "free_vfds")
            => /\ th'[t].ret # "0"
               /\ files' = files
               /\ \A s \in C29_Range(th[t].vfds) :
                    \/ s \in C29_Range(th'[t].vfds \o th'[t].todo)
                    \/ vfd'[s].fence_release_entry]_vars

\* the length plus the offset of a mapping, as numbers that do not wrap,
\* is more than the size rounded up to a page
C28_Exceeds(vm_pages, vm_pgoff, size) ==
    vm_pages + vm_pgoff > PAGE_ALIGN(size)

\* C28: mmap succeeds only for a VFD with a backing page frame number; a
\* mapping whose length plus offset is more than the VFD's size rounded up
\* to a page is refused, with EINVAL when the VFD has backing pages, however
\* large the offset; and one page at offset 0 of a VFD of 4096 bytes is not
\* refused as out of range.
C28_MapRangeChecked ==
    \A t \in UserThreads :
        (th[t].op = "mmap" /\ th[t].pc = "ret")
            => /\ th[t].ret = "0" => vfd[th[t].vfd].pfn # 0
               /\ C28_Exceeds(th[t].len, th[t].cnt,
                                              vfd[th[t].vfd].size)
                     => /\ th[t].ret # "0"
                        /\ vfd[th[t].vfd].pfn # 0 => th[t].ret = "EINVAL"
               /\ (/\ vfd[th[t].vfd].size = PAGE_SIZE
                   /\ vfd[th[t].vfd].pfn # 0
                   /\ th[t].len = 1 /\ th[t].cnt = 0)
                     => th[t].ret # "EINVAL"

C31_DropCase ==
    /\ disp.pc = "dispatch"
    /\ disp.msg.type = "RECV"
    /\ LET s == idr_find(vfds, disp.msg.id)
       IN  s = NULL \/ vfd[s].fence

\* C31: a Recv message whose target id is not registered, or whose target
\* VFD is a fence, is dropped: its buffer is given back to the receive queue
\* (and, being there, is held by no inbound queue).
C31_DroppedRecvReturned ==
    \A b \in Bufs :
      (C31_DropCase /\ disp.buf = b)
        ~> (/\ disp.buf # b
            /\ \E i \in DOMAIN in_avail : in_avail[i] = b
            /\ \A s \in Slots : \A i \in DOMAIN vfd[s].in_queue :
                  vfd[s].in_queue[i].buf # b)

\* C32: between two messages, and when a handler has returned, the
\* dispatcher holds neither vi->vfds_lock nor the lock of any VFD.
C32_HandlersReleaseLocks ==
    disp.pc \in {"idle", "dispatch", "return"} =>
      /\ vfds_lock # IN_WORK
      /\ \A s \in Slots : vfd[s].lock # IN_WORK

\* thread t is inside do_new with its VFD registered and not yet set up from
\* the host's answer: after idr_alloc, and before either the fields are set
\* (the call goes on to make the file) or the VFD is unlinked and freed
C34_SettingUp(t) ==
    /\ th[t].op = "new"
    /\ th[t].pc \notin {"idle", "new_lock", "file", "ret"}
    /\ vfd[th[t].vfd].mem = "live"
    /\ idr_find(vfds, vfd[th[t].vfd].id) = th[t].vfd

\* C34: while do_new is setting up a guest-created VFD, no lookup finds it:
\* the dispatcher is not at work on it with the VFD it got from idr_find.
C34_NewVfdNotFound ==
    \A t \in UserThreads :
      C34_SettingUp(t) =>
        ~(disp.pc \in {"work", "lock_vfd", "fence_lock"}
          /\ disp.vfd = th[t].vfd)

\* the threads and work items that take mutexes
C33_Owners == Threads \cup {IN_WORK}

\* C33: vi->vfds_lock is acquired before any vfd->lock: whoever acquires
\* vi->vfds_lock holds no VFD's lock at that moment, and so nobody ends up
\* waiting, with vi->vfds_lock in hand, for a lock that is never released.
C33_RegistryLockFirst ==
    [][/\ \A a \in C33_Owners :
            (vfds_lock # a /\ vfds_lock' = a) =>
              \A s \in Slots : vfd[s].lock # a
       /\ disp'.pc # "lock_vfd"]_vars

\* C35: the hangup of a fence VFD is handled to its end: the dispatcher
\* never enters virtwl_fence_release, which takes vi->fence_lock, while
\* vq_handle_hup still holds that lock.
C35_HupNeverEntersRelease ==
    disp.pc # "fence_release"

\* the dispatcher is about to handle, under vi->fence_lock, a hangup of a
\* fence VFD whose fence an earlier hangup has signalled and put already
C36_RepeatedHup ==
    /\ disp.pc = "fence_lock"
    /\ vfd[disp.vfd].fence_ptr # NULL
    /\ vfd[disp.vfd].fences[vfd[disp.vfd].fence_ptr].signals >= 1

\* C36: the reference a fence VFD holds on its fence is put at most once: a
\* repeated hangup does not lower the fence's reference count again and
\* does not put the VFD on vi->fence_release_list.
C36_FenceRefPutOnce ==
    [][(C36_RepeatedHup /\ disp' # disp) =>
         LET s == disp.vfd
             i == vfd[s].fence_ptr
         IN  /\ vfd'[s].fences[i].refs >= vfd[s].fences[i].refs
             /\ vfd'[s].fence_release_entry = vfd[s].fence_release_entry]_vars

\* the dispatcher has taken a New announcement for an id that is registered
C37_Duplicate ==
    /\ disp.msg.type = "NEW"
    /\ idr_find(vfds, disp.msg.id) # NULL

\* C37: a New announcement for an id that is registered changes neither the
\* registry nor any live VFD (the first VFD keeps its queue, flags and
\* hung-up state), leaves no new VFD behind, and its buffer goes back to
\* the receive queue.
C37_DuplicateNewDiscarded ==
    [][(C37_Duplicate /\ disp' # disp) =>
         /\ vfds' = vfds
         /\ \A s \in Slots :
              /\ vfd'[s].mem = "live" <=> vfd[s].mem = "live"
              /\ vfd[s].mem = "live" => vfd'[s] = vfd[s]
         /\ disp.pc = "dispatch" =>
              /\ disp' = [disp EXCEPT !.pc = "return"]
              /\ in_avail' = in_avail
         /\ disp.pc = "return" =>
              /\ disp' = IdleDisp
              /\ in_avail' = Append(in_avail, disp.buf)]_vars

\* the second announcement of an id has been handled: the first VFD is
\* registered, hung up and with a message in its queue, and the object made
\* for the second is freed
C37_Witness ==
    /\ C37_Duplicate
    /\ disp.pc = "return"
    /\ LET old == idr_find(vfds, disp.msg.id)
       IN  /\ vfd[old].mem = "live"
           /\ vfd[old].hungup
           /\ vfd[old].in_queue # <<>>
           /\ \E s \in Slots \ {old} : vfd[s].mem = "freed"

\* receive buffer b is posted on the receive queue
C38_Posted(b) == \E i \in DOMAIN in_avail : in_avail[i] = b

\* it is in the hands of the dispatcher
C38_InHand(b) == disp.pc # "idle" /\ disp.buf = b

\* the queue entries that hold it, of the VFDs that exist
C38_Entries(b) ==
    {si \in Slots \X (1..NumBufs) :
       /\ vfd[si[1]].mem = "live"
       /\ si[2] \in DOMAIN vfd[si[1]].in_queue
       /\ vfd[si[1]].in_queue[si[2]].buf = b}

\* C38: receive buffers are conserved: each buffer is posted on the receive
\* queue, or with the dispatcher, or held by one queue entry of one VFD, and
\* never in two of these places; so a VFD that is freed has given back the
\* buffers of its queue.
C38_BuffersConserved ==
    \A b \in Bufs :
      /\ C38_Posted(b) \/ C38_InHand(b) \/ C38_Entries(b) # {}
      /\ ~(C38_Posted(b) /\ C38_InHand(b))
      /\ C38_Entries(b) # {} => ~C38_Posted(b) /\ ~C38_InHand(b)
      /\ Cardinality(C38_Entries(b)) <= 1
      /\ Cardinality({i \in DOMAIN in_avail : in_avail[i] = b}) <= 1

\* thread t leaves virtwl_vfd_recv with -EAGAIN or -ERESTARTSYS in this step
C39_Leaves(t) ==
    /\ th[t].op \in {"read", "recv"}
    /\ th[t].pc \in {"recv_lock1", "recv_lock2", "recv_wait"}
    /\ th'[t].pc = "ret"
    /\ th'[t].ret \in {"EAGAIN", "ERESTARTSYS"}

\* C39 as stated: such a read returns holding neither lock and leaves the
\* registry and the VFD, its queue and hung-up flag, exactly as they were.
C39_FailedReadChangesNothing ==
    [][\A t \in UserThreads :
         C39_Leaves(t) =>
           /\ vfds_lock' # t
           /\ vfds' = vfds
           /\ vfd' = vfd
           /\ in_avail' = in_avail]_vars

\* what such a read may have taken off the queue before it found nothing
\* to return: an entry with no payload left and, for read(), no attached
\* id left either (the RECV ioctl goes past ids of no registered VFD)
C39_Consumed(t, e) ==
    /\ e.data_offset >= e.data
    /\ th[t].op = "read" => e.vfd_offset >= Len(e.vfds)

\* the entries of q that such a read leaves
RECURSIVE C39_Left(_, _)
C39_Left(t, q) ==
    IF q = <<>> THEN <<>>
    ELSE (IF C39_Consumed(t, Head(q)) THEN <<>> ELSE <<Head(q)>>)
         \o C39_Left(t, Tail(q))

\* C39, amended: such a read returns holding neither lock and leaves the
\* registry, the hung-up flag and every other VFD as they were; of its
\* VFD's queue it leaves every entry that has something left to read,
\* offsets included, and each entry it took off gave its buffer back.
C39_FailedReadKeepsUnread ==
    [][\A t \in UserThreads :
         C39_Leaves(t) =>
           LET s == th[t].vfd
           IN  /\ vfds_lock' # t
               /\ vfd'[s].lock # t
               /\ vfds' = vfds
               /\ vfd' = [vfd EXCEPT ![s].in_queue = C39_Left(t, @)]
               /\ Len(in_avail') = Len(in_avail) + Len(vfd[s].in_queue)
                                     - Len(vfd'[s].in_queue)]_vars

\* a read() has returned -EAGAIN from a VFD whose queue holds a message
\* with nothing but an attached id left
C39_Witness ==
    \E t \in UserThreads :
      /\ th[t].op = "read"
      /\ th[t].pc = "ret"
      /\ th[t].ret = "EAGAIN"
      /\ vfd[th[t].vfd].in_queue # <<>>
      /\ ~vfd[th[t].vfd].hungup

\* C40: when the completion worker takes a completed request off the send
\* queue, every sender that waits in vq_queue_out for capacity is woken by
\* it and goes for the queue again, before its timeout has passed.
C40_WorkerWakesSenders ==
    [][(out_vq' # out_vq /\ out_vq' \subseteq out_vq) =>
         \A t \in Threads :
           th[t].pc = "qwait" => th'[t].pc = "requeue"]_vars


====
